---- MODULE Spec2Model ----
(***************************************************************************)
(* Floorplan layout and export engine: the netlist ingestion of            *)
(* ingest_netlist.py (build_design) and the interactive session of         *)
(* gui_min.py (Main, BlockItem, PinItem).                                  *)
(*                                                                         *)
(* Conventions.  All coordinates are integer design units (pixels).        *)
(* Python dicts and lists keep insertion order and are sequences here.     *)
(* A name is a sequence of tokens (its characters, grouped); an endpoint   *)
(* string "inst.port" is the concatenation inst \o <<".">> \o port, so     *)
(* that formatting and parsing are modelled by what they do.  Centers are  *)
(* kept doubled (2*cx, 2*cy) because size/2.0 may be a half integer.       *)
(* Areas are integers >= 1 and sqrt/round are computed exactly.            *)
(***************************************************************************)
EXTENDS Integers, Sequences, FiniteSets, TLC

VARIABLES
    disk,      \* artifacts/design.json: NoDisk or the design record
    gui,       \* "off" | "on": whether a Main window exists
    die,       \* Main.grid, Main.w, Main.h, Main.margin
    modules,   \* Main.modules: the module records (shared with BlockItem.module)
    itemPos,   \* BlockItem.pos() per module index
    ports,     \* Main.ports: the port records as loaded
    pins,      \* PinItem.pin and PinItem.pos() per port index
    nets,      \* Main.nets
    conn,      \* mm_edges, mp_edges, max_weight of _build_connectivity
    hpwl,      \* result of the last _update_hpwl
    export,    \* files written by the last _on_export_clicked
    last,      \* record of the last handler that ran
    probe      \* argument/result of the last pure helper applied

vars == <<disk, gui, die, modules, itemPos, ports, pins, nets, conn, hpwl,
          export, last, probe>>

----------------------------------------------------------------------------
(* Program constants                                                       *)

HALO_PX == 4
MIN_SIDE_PX == 32
MAX_SIDE_FRAC_NUM == 35
MAX_SIDE_FRAC_DEN == 100
PX_TO_UM_NUM == 1
PX_TO_UM_DEN == 1
AUTOSCALE_ON_LOAD == TRUE
HPWL_NET_CAP == 500
CURSOR_START == -1000000000

----------------------------------------------------------------------------
(* Arithmetic of the host language                                         *)

Max(a, b) == IF a >= b THEN a ELSE b
Min(a, b) == IF a <= b THEN a ELSE b
Abs(a) == IF a < 0 THEN -a ELSE a

\* Python round(n/d) for d > 0: nearest integer, ties to the even one.
PyRound(n, d) ==
    LET q == n \div d
        r == n % d
    IN  IF 2 * r < d THEN q
        ELSE IF 2 * r > d THEN q + 1
        ELSE IF q % 2 = 0 THEN q ELSE q + 1

\* Python int(n/d) for d > 0: truncation toward zero.
PyTrunc(n, d) == IF n >= 0 THEN n \div d ELSE -((-n) \div d)

\* int(round(t * sqrt(a) / sqrt(amax))) for 1 <= a <= amax, t >= 0:
\* the n with n - 1/2 <= t*sqrt(a/amax) <= n + 1/2, ties to even.
RoundScaledSqrt(t, a, amax) ==
    LET L == 4 * t * t * a
        f == CHOOSE n \in 0..(t + 1) :
                 /\ (n = 0 \/ (2 * n - 1) * (2 * n - 1) * amax <= L)
                 /\ L < (2 * n + 1) * (2 * n + 1) * amax
    IN  IF f >= 1 /\ (2 * f - 1) * (2 * f - 1) * amax = L /\ f % 2 = 1
        THEN f - 1 ELSE f

\* _snap(v, g) = int(round(v / g) * g)
SnapTiesAway(v, g) ==
    LET q == v \div g
        r == v % g
    IN  IF 2 * r < g THEN q * g
        ELSE IF 2 * r > g THEN (q + 1) * g
        ELSE IF v >= 0 THEN (q + 1) * g ELSE q * g
SnapFloor(v, g) == (v \div g) * g
SnapUnscaled(v, g) == PyRound(v, g)
_snap(v, g) == PyRound(v, g) * g

----------------------------------------------------------------------------
(* Strings                                                                 *)

Tokens == {".", "clk", "d", "din", "dout", "q", "rst", "top", "u1", "u2", "u3",
           "u4", "u5", "zz"}
TokRank(t) ==
    CASE t = "."    -> 0
      [] t = "clk"  -> 1
      [] t = "d"    -> 2
      [] t = "din"  -> 3
      [] t = "dout" -> 4
      [] t = "q"    -> 5
      [] t = "rst"  -> 6
      [] t = "top"  -> 7
      [] t = "u1"   -> 8
      [] t = "u2"   -> 9
      [] t = "u3"   -> 10
      [] t = "u4"   -> 11
      [] t = "u5"   -> 12
      [] t = "zz"   -> 13

\* Python's str <: lexicographic, a proper prefix is smaller.
StrLess(s, t) ==
    \E k \in 1..(Min(Len(s), Len(t)) + 1) :
        /\ \A j \in 1..(k - 1) : s[j] = t[j]
        /\ \/ k = Len(s) + 1 /\ k <= Len(t)
           \/ k <= Len(s) /\ k <= Len(t) /\ TokRank(s[k]) < TokRank(t[k])

Range(s) == {s[i] : i \in 1..Len(s)}

RECURSIVE Flatten(_)
Flatten(ss) == IF ss = <<>> THEN <<>> ELSE Head(ss) \o Flatten(Tail(ss))

\* The distinct elements of s in order of first occurrence
DedupSeq(s) ==
    LET firsts == {i \in 1..Len(s) : \A j \in 1..(i - 1) : s[j] # s[i]}
    IN  [k \in 1..Cardinality(firsts) |->
            s[CHOOSE i \in firsts : Cardinality({j \in firsts : j < i}) = k - 1]]

\* sorted(set(eps))
RECURSIVE SortedOfSet(_)
SortedOfSet(S) ==
    IF S = {} THEN <<>>
    ELSE LET m == CHOOSE x \in S : \A y \in S \ {x} : StrLess(x, y)
         IN  <<m>> \o SortedOfSet(S \ {m})

\* f"{inst}.{port_name}" and f"top.{pname}"
FmtEndpoint(owner, port) == owner \o <<".">> \o port

----------------------------------------------------------------------------
(* ingest_netlist.py: build_design                                         *)
(* An input is [hasTop, ports, cells, netnames, die_w, die_h, grid,        *)
(* core_margin, frac_num, frac_den, min_side_px]; cells carry the          *)
(* area_hint of their type as an integer >= 1.                             *)

\* ports.append({"name", "dir", "width": len(bits) or 1})
IngestPorts(inp) ==
    [i \in 1..Len(inp.ports) |->
        [name |-> inp.ports[i].name, dir |-> inp.ports[i].direction,
         width |-> IF Len(inp.ports[i].bits) = 0 THEN 1
                   ELSE Len(inp.ports[i].bits),
         hasxy |-> FALSE, side |-> "N", x |-> 0, y |-> 0]]

\* base*base for base = max(1.0, sqrt(area))
BaseSq(area) == Max(1, area)

MaxOfSet(S) == CHOOSE m \in S : \A x \in S : x <= m

\* max_base squared; default 1.0 when there is no module
MaxBaseSq(areas) ==
    IF areas = <<>> THEN 1 ELSE MaxOfSet({BaseSq(areas[i]) : i \in 1..Len(areas)})

\* target_max_side = max(min_side_px, int(round(die_min * max_side_frac)))
TargetMaxSideNoFrac(die_min, fnum, fden, min_side_px) == Max(min_side_px, die_min)
TargetMaxSide(die_min, fnum, fden, min_side_px) ==
    Max(min_side_px, PyRound(die_min * fnum, fden))

\* min_side = max(2*grid, min_side_px)
MinSide(grid, min_side_px) == Max(2 * grid, min_side_px)

\* side = max(min_side, int(round(base * k))), k = target_max_side / max_base
ScaledSide(area, maxBaseSq, target, min_side) ==
    Max(min_side, RoundScaledSqrt(target, BaseSq(area), maxBaseSq))

\* The row packing loop, from module i on, with the cursor (x, y, row_h).
RowGapHalo(grid) == Max(grid, 2 * HALO_PX)
RowGap(grid) == grid
\* y += row_h + grid
NextRowYNoHeight(y, row_h, grid) == y + grid
NextRowY(y, row_h, grid) == y + row_h + RowGap(grid)
RECURSIVE PackFrom(_, _, _, _, _, _)
PackFrom(inp, sides, i, x, y, row_h) ==
    IF i > Len(inp.cells) THEN <<>>
    ELSE LET side == sides[i]
             wrap == x + side > inp.die_w - inp.core_margin
             x1   == IF wrap THEN inp.core_margin + inp.grid ELSE x
             y1   == IF wrap THEN NextRowY(y, row_h, inp.grid) ELSE y
             rh1  == IF wrap THEN 0 ELSE row_h
         IN  <<[inst |-> inp.cells[i].inst, area |-> inp.cells[i].area,
                w |-> side, h |-> side, x |-> x1, y |-> y1]>>
             \o PackFrom(inp, sides, i + 1, x1 + side + RowGap(inp.grid), y1,
                         Max(rh1, side))

PackModules(inp) ==
    LET core_w  == Max(1, inp.die_w - 2 * inp.core_margin)
        core_h  == Max(1, inp.die_h - 2 * inp.core_margin)
        die_min == Min(core_w, core_h)
        areas   == [i \in 1..Len(inp.cells) |-> inp.cells[i].area]
        mb      == MaxBaseSq(areas)
        target  == TargetMaxSide(die_min, inp.frac_num, inp.frac_den,
                                 inp.min_side_px)
        ms      == MinSide(inp.grid, inp.min_side_px)
        sides   == [i \in 1..Len(inp.cells) |->
                       ScaledSide(areas[i], mb, target, ms)]
    IN  PackFrom(inp, sides, 1, inp.core_margin + inp.grid,
                 inp.core_margin + inp.grid, 0)

\* The (bit, endpoint) pairs in the order build_design appends them to
\* bit_eps: every cell connection first, then every top port.
BitPairs(inp) ==
    Flatten([c \in 1..Len(inp.cells) |->
        Flatten([k \in 1..Len(inp.cells[c].connections) |->
            [j \in 1..Len(inp.cells[c].connections[k].bits) |->
                [bit |-> inp.cells[c].connections[k].bits[j],
                 ep  |-> FmtEndpoint(inp.cells[c].inst,
                                     inp.cells[c].connections[k].port)]]])])
    \o
    Flatten([p \in 1..Len(inp.ports) |->
        [j \in 1..Len(inp.ports[p].bits) |->
            [bit |-> inp.ports[p].bits[j],
             ep  |-> FmtEndpoint(<<"top">>, inp.ports[p].name)]]])

\* bit_eps.get(bit, [])
RECURSIVE EpsOfBit(_, _)
EpsOfBit(pairs, bit) ==
    IF pairs = <<>> THEN <<>>
    ELSE (IF Head(pairs).bit = bit THEN <<Head(pairs).ep>> ELSE <<>>)
         \o EpsOfBit(Tail(pairs), bit)

\* eps of one netname before and after sorted(set(.))
NetEpsRaw(inp, bits) ==
    Flatten([k \in 1..Len(bits) |-> EpsOfBit(BitPairs(inp), bits[k])])
NetEpsNoSort(raw) == DedupSeq(raw)
NetEps(raw) == SortedOfSet(Range(raw))

MinEndpoints == 2

\* nets_out: the loop over netnames
RECURSIVE BuildNetsFrom(_, _)
BuildNetsFrom(inp, i) ==
    IF i > Len(inp.netnames) THEN <<>>
    ELSE LET bits == inp.netnames[i].bits
             eps  == NetEps(NetEpsRaw(inp, bits))
         IN  (IF Len(eps) >= MinEndpoints
              THEN <<[name |-> inp.netnames[i].name, endpoints |-> eps,
                      weight |-> Len(eps) - 1, bw |-> Max(1, Len(bits))]>>
              ELSE <<>>)
             \o BuildNetsFrom(inp, i + 1)

\* The design written to out_path
build_design(inp) ==
    [die |-> [width |-> inp.die_w, height |-> inp.die_h, grid |-> inp.grid,
              core_margin |-> inp.core_margin],
     modules |-> PackModules(inp),
     ports |-> IngestPorts(inp),
     nets |-> BuildNetsFrom(inp, 1)]

----------------------------------------------------------------------------
(* gui_min.py: geometry, Main._occupied                                    *)

\* Main.core_rect = QRectF(margin, margin, w - 2*margin, h - 2*margin)
CoreOf(d) ==
    [left |-> d.core_margin, top |-> d.core_margin,
     right |-> d.core_margin + (d.width - 2 * d.core_margin),
     bottom |-> d.core_margin + (d.height - 2 * d.core_margin)]

Rect(x, y, w, h) == [x |-> x, y |-> y, w |-> w, h |-> h]

\* QRectF.adjusted(-h, -h, h, h)
Adjusted(r, halo) == Rect(r.x - halo, r.y - halo, r.w + 2 * halo, r.h + 2 * halo)

\* QRectF.intersects for rectangles of non-negative size: a null rectangle
\* intersects nothing, touching edges do not intersect.
IntersectsClosed(a, b) ==
    /\ a.w # 0 /\ a.h # 0 /\ b.w # 0 /\ b.h # 0
    /\ a.x <= b.x + b.w /\ b.x <= a.x + a.w
    /\ a.y <= b.y + b.h /\ b.y <= a.y + a.h
Intersects(a, b) ==
    /\ a.w # 0 /\ a.h # 0 /\ b.w # 0 /\ b.h # 0
    /\ a.x < b.x + b.w /\ b.x < a.x + a.w
    /\ a.y < b.y + b.h /\ b.y < a.y + a.h

\* Main._occupied(rect, ignore_inst, halo_px)
OccupiedNoHalo(mods, rect, ignore_inst, halo_px) ==
    \E j \in 1..Len(mods) :
        /\ mods[j].inst # ignore_inst
        /\ Intersects(rect, Rect(mods[j].x, mods[j].y, mods[j].w, mods[j].h))
_occupied(mods, rect, ignore_inst, halo_px) ==
    \E j \in 1..Len(mods) :
        /\ mods[j].inst # ignore_inst
        /\ Intersects(Adjusted(rect, halo_px),
                      Adjusted(Rect(mods[j].x, mods[j].y, mods[j].w, mods[j].h),
                               halo_px))

\* can_place_fn(new_rect, inst)
can_place_fn(mods, rect, inst) == ~_occupied(mods, rect, inst, HALO_PX)

----------------------------------------------------------------------------
(* gui_min.py: BlockItem                                                   *)

\* min(max(lo, v), hi)
ClampNoUpper(lo, v, hi) == Max(lo, v)
ClampMinMax(lo, v, hi) == Min(Max(lo, v), hi)

\* The position itemChange returns when can_place fails
RevertPosKeepX(m, cand) == <<cand[1], m.y>>
RevertPos(m, cand) == <<m.x, m.y>>

\* BlockItem.itemChange(ItemPositionChange, value): the candidate, the
\* verdict of can_place and the returned position.
BlockPositionChange(mods, i, value, d) ==
    LET core == CoreOf(d)
        m    == mods[i]
        x    == ClampMinMax(core.left, _snap(value[1], d.grid), core.right - m.w)
        y    == ClampMinMax(core.top, _snap(value[2], d.grid), core.bottom - m.h)
        ok   == can_place_fn(mods, Rect(x, y, m.w, m.h), m.inst)
    IN  [cand |-> <<x, y>>, ok |-> ok,
         ret |-> IF ok THEN <<x, y>> ELSE RevertPos(m, <<x, y>>)]

\* QGraphicsItem.setPos(value) on a BlockItem whose module dict would be
\* one dict shared by all the items
BlockSetPosShared(mods, ipos, i, value, d, constructed) ==
    LET cand == <<ClampMinMax(CoreOf(d).left, _snap(value[1], d.grid),
                              CoreOf(d).right - mods[i].w),
                  ClampMinMax(CoreOf(d).top, _snap(value[2], d.grid),
                              CoreOf(d).bottom - mods[i].h)>>
        ok   == can_place_fn(mods, Rect(cand[1], cand[2], mods[i].w, mods[i].h),
                             mods[i].inst)
        ret  == IF ok THEN cand ELSE RevertPos(mods[i], cand)
    IN  IF ipos[i] = value \/ ret = ipos[i]
        THEN [mods |-> mods, ipos |-> ipos]
        ELSE [mods |-> IF constructed
                       THEN [j \in 1..Len(mods) |->
                                [mods[j] EXCEPT !.x = ret[1], !.y = ret[2]]]
                       ELSE mods,
              ipos |-> [ipos EXCEPT ![i] = ret]]

\* QGraphicsItem.setPos(value) on a BlockItem: nothing happens when value
\* is the current position or when itemChange returns the current
\* position; otherwise the position is applied and, once constructed,
\* ItemPositionHasChanged stores it in the module record.
BlockSetPos(mods, ipos, i, value, d, constructed) ==
    LET chg == BlockPositionChange(mods, i, value, d)
    IN  IF ipos[i] = value \/ chg.ret = ipos[i]
        THEN [mods |-> mods, ipos |-> ipos]
        ELSE [mods |-> IF constructed
                       THEN [mods EXCEPT ![i].x = chg.ret[1], ![i].y = chg.ret[2]]
                       ELSE mods,
              ipos |-> [ipos EXCEPT ![i] = chg.ret]]

\* Main.__init__: for m in self.modules: BlockItem(m, ...), each ending with
\* setPos(module x, module y) before _constructed is set.
RECURSIVE ConstructBlocks(_, _, _, _)
ConstructBlocks(mods, ipos, i, d) ==
    IF i > Len(mods) THEN ipos
    ELSE ConstructBlocks(mods,
             BlockSetPos(mods, ipos, i, <<mods[i].x, mods[i].y>>, d, FALSE).ipos,
             i + 1, d)

----------------------------------------------------------------------------
(* gui_min.py: Main.autoscale_modules                                      *)

\* while self._occupied(test, ...) and x + side + grid <= cx + cw: x += grid
RECURSIVE SlideRight(_, _, _, _, _, _)
SlideRight(mods, i, x, y, side, d) ==
    IF /\ _occupied(mods, Rect(x, y, side, side), mods[i].inst, HALO_PX)
       /\ x + side + d.grid <= CoreOf(d).right
    THEN SlideRight(mods, i, x + d.grid, y, side, d)
    ELSE x

\* The loop body for module i; sides were computed before the loop.
RECURSIVE AutoscaleFrom(_, _, _, _, _)
AutoscaleFrom(mods, ipos, sides, i, d) ==
    IF i > Len(mods) THEN [mods |-> mods, ipos |-> ipos]
    ELSE LET core == CoreOf(d)
             side == sides[i]
             m1   == [mods EXCEPT ![i].w = side, ![i].h = side]
             x0   == Max(core.left, Min(mods[i].x, core.right - side))
             y    == Max(core.top, Min(mods[i].y, core.bottom - side))
             x    == SlideRight(m1, i, x0, y, side, d)
             m2   == [m1 EXCEPT ![i].x = x, ![i].y = y]
             r    == BlockSetPos(m2, ipos, i, <<x, y>>, d, TRUE)
         IN  AutoscaleFrom(r.mods, r.ipos, sides, i + 1, d)

autoscale_modules(mods, ipos, d) ==
    IF mods = <<>> THEN [mods |-> mods, ipos |-> ipos]
    ELSE LET core    == CoreOf(d)
             die_min == Min(core.right - core.left, core.bottom - core.top)
             areas   == [i \in 1..Len(mods) |-> mods[i].area]
             mb      == MaxBaseSq(areas)
             target  == TargetMaxSide(die_min, MAX_SIDE_FRAC_NUM,
                                      MAX_SIDE_FRAC_DEN, MIN_SIDE_PX)
             ms      == MinSide(d.grid, MIN_SIDE_PX)
             sides   == [i \in 1..Len(mods) |->
                            ScaledSide(areas[i], mb, target, ms)]
         IN  AutoscaleFrom(mods, ipos, sides, 1, d)

----------------------------------------------------------------------------
(* gui_min.py: PinItem                                                     *)

\* pin_s = max(10, int(0.8*self.grid))
PinSize(grid) == Max(10, PyTrunc(8 * grid, 10))

\* min([("N",dN),("S",dS),("W",dW),("E",dE)], key=...)[0] on the doubled
\* center (cx2, cy2): the first of N, S, W, E with the least distance.
NearestSideLastWins(cx2, cy2, core) ==
    LET dN == Abs(cy2 - 2 * core.top)
        dS == Abs(cy2 - 2 * core.bottom)
        dW == Abs(cx2 - 2 * core.left)
        dE == Abs(cx2 - 2 * core.right)
    IN  IF dE <= dN /\ dE <= dS /\ dE <= dW THEN "E"
        ELSE IF dW <= dN /\ dW <= dS THEN "W"
        ELSE IF dS <= dN THEN "S"
        ELSE "N"
NearestSide(cx2, cy2, core) ==
    LET dN == Abs(cy2 - 2 * core.top)
        dS == Abs(cy2 - 2 * core.bottom)
        dW == Abs(cx2 - 2 * core.left)
        dE == Abs(cx2 - 2 * core.right)
    IN  IF dN <= dS /\ dN <= dW /\ dN <= dE THEN "N"
        ELSE IF dS <= dW /\ dS <= dE THEN "S"
        ELSE IF dW <= dE THEN "W"
        ELSE "E"

\* max(lo, min(v, hi)) as written in _project_to_perimeter
ClampAlongNoClamp(lo, v, hi) == v
ClampAlong(lo, v, hi) == Max(lo, Min(v, hi))

\* The coordinate forced onto the chosen edge
EdgeCoordInside(side, size, core) ==
    CASE side = "N" -> core.top
      [] side = "S" -> core.bottom - size
      [] side = "W" -> core.left
      [] side = "E" -> core.right - size
EdgeCoord(side, size, core) ==
    CASE side = "N" -> core.top - size
      [] side = "S" -> core.bottom
      [] side = "W" -> core.left - size
      [] side = "E" -> core.right

\* PinItem._project_to_perimeter(x, y)
_project_to_perimeter(x, y, d) ==
    LET core == CoreOf(d)
        size == PinSize(d.grid)
        side == NearestSide(2 * x + size, 2 * y + size, core)
    IN  IF side \in {"N", "S"}
        THEN [x |-> ClampAlong(core.left, _snap(x, d.grid), core.right - size),
              y |-> EdgeCoord(side, size, core), side |-> side]
        ELSE [x |-> EdgeCoord(side, size, core),
              y |-> ClampAlong(core.top, _snap(y, d.grid), core.bottom - size),
              side |-> side]

\* QGraphicsItem.setPos(value) on a PinItem whose pin record and position
\* are pin: itemChange(ItemPositionChange) stores the projection in the pin
\* record and returns it; nothing happens when value is the current position.
PinSetPos(pin, value, d) ==
    IF <<pin.x, pin.y>> = value THEN pin
    ELSE LET pr == _project_to_perimeter(value[1], value[2], d)
         IN  [pin EXCEPT !.x = pr.x, !.y = pr.y, !.side = pr.side]

\* PinItem(pin, ...) followed by it.setPos(pin["x"], pin["y"]): a new item
\* sits at (0, 0) and its record holds the given values.
PinConstruct(name, side, x, y, d) ==
    LET rec == [name |-> name, side |-> side, x |-> x, y |-> y]
    IN  IF <<0, 0>> = <<x, y>> THEN rec
        ELSE LET pr == _project_to_perimeter(x, y, d)
             IN  [rec EXCEPT !.x = pr.x, !.y = pr.y, !.side = pr.side]

\* place_line(pins, side) of _place_pins_initial
place_line(ps, side, d) ==
    LET core  == CoreOf(d)
        pin_s == PinSize(d.grid)
        n     == Len(ps)
        x0    == core.left + d.grid
        x1    == core.right - d.grid - pin_s
        y0    == core.top + d.grid
        y1    == core.bottom - d.grid - pin_s
    IN  [i \in 1..n |->
            IF side \in {"N", "S"}
            THEN PinConstruct(ps[i].name, side,
                     PyTrunc(x0 * (n + 1) + i * (x1 - x0), n + 1),
                     IF side = "N" THEN core.top - pin_s ELSE core.bottom, d)
            ELSE PinConstruct(ps[i].name, side,
                     IF side = "W" THEN core.left - pin_s ELSE core.right,
                     PyTrunc(y0 * (n + 1) + i * (y1 - y0), n + 1), d)]

\* Main._place_pins_initial(ports): the pin items in pin_items order
_place_pins_initial(pts, d) ==
    IF \E i \in 1..Len(pts) : pts[i].hasxy
    THEN [i \in 1..Len(pts) |->
             IF pts[i].hasxy
             THEN PinConstruct(pts[i].name, pts[i].side, pts[i].x, pts[i].y, d)
             ELSE PinConstruct(pts[i].name, "N", 0, 0, d)]
    ELSE LET isN(p) == p.name \in {<<"clk">>, <<"rst">>}
             isE(p) == ~isN(p) /\ p.dir = "output"
             isW(p) == ~isN(p) /\ ~isE(p)
         IN  place_line(SelectSeq(pts, isN), "N", d)
             \o place_line(SelectSeq(pts, isW), "W", d)
             \o place_line(SelectSeq(pts, isE), "E", d)

----------------------------------------------------------------------------
(* gui_min.py: _pair, Main._build_connectivity                             *)

\* tuple(sorted((a, b)))
PairUnsorted(a, b) == <<a, b>>
_pair(a, b) == IF StrLess(b, a) THEN <<b, a>> ELSE <<a, b>>

\* ep.startswith("top.")
IsTopEp(ep) == Len(ep) >= 2 /\ ep[1] = "top" /\ ep[2] = "."

\* index of the first "." of ep, Len(ep) + 1 when there is none
FirstDot(ep) ==
    IF \E k \in 1..Len(ep) : ep[k] = "."
    THEN CHOOSE k \in 1..Len(ep) : ep[k] = "." /\ \A j \in 1..(k - 1) : ep[j] # "."
    ELSE Len(ep) + 1

\* ep.split(".", 1)[0] and ep.split(".", 1)[1]
SplitHead(ep) == SubSeq(ep, 1, FirstDot(ep) - 1)
SplitTail(ep) == SubSeq(ep, FirstDot(ep) + 1, Len(ep))

\* The set pins gathered from one net's endpoints
NetPins(eps) == {SplitTail(eps[k]) : k \in {j \in 1..Len(eps) : IsTopEp(eps[j])}}

\* list(mods): the distinct instances, here in order of first occurrence
\* (any order gives the same keys once _pair has normalised them).
NetModListNoDedup(eps) ==
    LET idx == SelectSeq([k \in 1..Len(eps) |-> k], LAMBDA k : ~IsTopEp(eps[k]))
    IN  [k \in 1..Len(idx) |-> SplitHead(eps[idx[k]])]
NetModList(eps) ==
    LET idx == SelectSeq([k \in 1..Len(eps) |-> k], LAMBDA k : ~IsTopEp(eps[k]))
    IN  DedupSeq([k \in 1..Len(idx) |-> SplitHead(eps[idx[k]])])

\* The index pairs i < j of the double loop over list(mods)
ModPairs(eps) ==
    {ij \in (1..Len(NetModList(eps))) \X (1..Len(NetModList(eps))) : ij[1] < ij[2]}

\* The keys one net touches, and how many times it adds its bw to a key
MMKeys(eps) == {_pair(NetModList(eps)[ij[1]], NetModList(eps)[ij[2]]) : ij \in ModPairs(eps)}
MMTimes(eps, key) ==
    Cardinality({ij \in ModPairs(eps) :
        _pair(NetModList(eps)[ij[1]], NetModList(eps)[ij[2]]) = key})
MPKeys(eps) == Range(NetModList(eps)) \X NetPins(eps)
MPTimes(eps, key) ==
    Cardinality({k \in 1..Len(NetModList(eps)) : NetModList(eps)[k] = key[1]})

\* mm[k] += w over one net, for a defaultdict held as a function
AddNet(acc, keys, times, w) ==
    [k \in (DOMAIN acc) \cup keys |->
        (IF k \in DOMAIN acc THEN acc[k] ELSE 0)
        + (IF k \in keys THEN times[k] * w ELSE 0)]

\* The loop over self.nets from net i on; maxw is the running maximum.
RECURSIVE ConnFrom(_, _, _, _, _)
ConnFrom(ns, i, mm, mp, maxw) ==
    IF i > Len(ns) THEN [mm |-> mm, mp |-> mp,
                         max_weight |-> IF maxw > 0 THEN maxw ELSE 1]
    ELSE LET eps == ns[i].endpoints
             w   == ns[i].bw
             mm1 == AddNet(mm, MMKeys(eps), [k \in MMKeys(eps) |-> MMTimes(eps, k)], w)
             mp1 == AddNet(mp, MPKeys(eps), [k \in MPKeys(eps) |-> MPTimes(eps, k)], w)
             seen == {mm1[k] : k \in MMKeys(eps)} \cup {mp1[k] : k \in MPKeys(eps)}
         IN  ConnFrom(ns, i + 1, mm1, mp1,
                      IF seen = {} THEN maxw ELSE Max(maxw, MaxOfSet(seen)))

EmptyMap == <<>>
_build_connectivity(ns) == ConnFrom(ns, 1, EmptyMap, EmptyMap, 0)

----------------------------------------------------------------------------
(* gui_min.py: _center_block, _center_pin, _hpwl_net, _update_hpwl         *)

\* Doubled center of a block item, <<>> (None) when inst is not in self.items
_center_block(mods, ipos, inst) ==
    IF \E i \in 1..Len(mods) : mods[i].inst = inst
    THEN LET i == CHOOSE j \in 1..Len(mods) : mods[j].inst = inst
         IN  <<2 * ipos[i][1] + mods[i].w, 2 * ipos[i][2] + mods[i].h>>
    ELSE <<>>

\* Doubled center of a pin item, <<>> (None) when name is not in pin_items
_center_pin(pns, name, d) ==
    IF \E i \in 1..Len(pns) : pns[i].name = name
    THEN LET i == CHOOSE j \in 1..Len(pns) : pns[j].name = name
         IN  <<2 * pns[i].x + PinSize(d.grid), 2 * pns[i].y + PinSize(d.grid)>>
    ELSE <<>>

\* pts: the centers of the endpoints that resolve, in endpoint order
ResolvedPtsZeroFill(mods, ipos, pns, d, eps) ==
    LET c(ep) == IF IsTopEp(ep) THEN _center_pin(pns, SplitTail(ep), d)
                 ELSE _center_block(mods, ipos, SplitHead(ep))
    IN  [k \in 1..Len(eps) |-> IF c(eps[k]) = <<>> THEN <<0, 0>> ELSE c(eps[k])]
ResolvedPts(mods, ipos, pns, d, eps) ==
    LET c(ep) == IF IsTopEp(ep) THEN _center_pin(pns, SplitTail(ep), d)
                 ELSE _center_block(mods, ipos, SplitHead(ep))
    IN  SelectSeq([k \in 1..Len(eps) |-> c(eps[k])], LAMBDA pt : pt # <<>>)

MinOfSet(S) == CHOOSE m \in S : \A x \in S : m <= x

\* (max(xs)-min(xs)) + (max(ys)-min(ys)), 0.0 under two points; doubled
HpwlOfPtsXOnly(pts) ==
    IF Len(pts) < 2 THEN 0
    ELSE LET xs == {pts[k][1] : k \in 1..Len(pts)}
         IN  MaxOfSet(xs) - MinOfSet(xs)
HpwlOfPts(pts) ==
    IF Len(pts) < 2 THEN 0
    ELSE LET xs == {pts[k][1] : k \in 1..Len(pts)}
             ys == {pts[k][2] : k \in 1..Len(pts)}
         IN  (MaxOfSet(xs) - MinOfSet(xs)) + (MaxOfSet(ys) - MinOfSet(ys))

_hpwl_net(mods, ipos, pns, d, eps) == HpwlOfPts(ResolvedPts(mods, ipos, pns, d, eps))

RECURSIVE SumSeq(_)
SumSeq(s) == IF s = <<>> THEN 0 ELSE Head(s) + SumSeq(Tail(s))

\* total over self.nets[:500]; doubled
_update_hpwl(mods, ipos, pns, d, ns) ==
    SumSeq([k \in 1..Min(Len(ns), HPWL_NET_CAP) |->
               _hpwl_net(mods, ipos, pns, d, ns[k].endpoints)])

----------------------------------------------------------------------------
(* gui_min.py: Main._on_save_clicked                                       *)

\* The design written back: stored modules take x, y, w, h of the module
\* record with the same inst, stored ports take the position of their pin
\* item and the side of its pin record.
_on_save_clicked(dsk, mods, pns) ==
    [dsk EXCEPT
        !.modules = [i \in 1..Len(dsk.modules) |->
            IF \E j \in 1..Len(mods) : mods[j].inst = dsk.modules[i].inst
            THEN LET cur == mods[CHOOSE j \in 1..Len(mods) :
                                     mods[j].inst = dsk.modules[i].inst]
                 IN  [dsk.modules[i] EXCEPT !.x = cur.x, !.y = cur.y,
                                            !.w = cur.w, !.h = cur.h]
            ELSE dsk.modules[i]],
        !.ports = [i \in 1..Len(dsk.ports) |->
            IF \E j \in 1..Len(pns) : pns[j].name = dsk.ports[i].name
            THEN LET it == pns[CHOOSE j \in 1..Len(pns) :
                                   pns[j].name = dsk.ports[i].name]
                 IN  [dsk.ports[i] EXCEPT !.hasxy = TRUE, !.x = it.x,
                                          !.y = it.y, !.side = it.side]
            ELSE dsk.ports[i]]]

----------------------------------------------------------------------------
(* gui_min.py: export to the backend                                       *)

\* int(round(v * PX_TO_UM))
ToUm(v) == PyRound(v * PX_TO_UM_NUM, PX_TO_UM_DEN)

\* Main._gui_to_ll(x_gui, y_gui, h_box)
GuiToLlIgnoreHeight(x_gui, y_gui, h_box, d) ==
    <<ToUm(x_gui), ToUm(d.height - y_gui)>>
_gui_to_ll(x_gui, y_gui, h_box, d) ==
    IF h_box # 0
    THEN <<ToUm(x_gui), ToUm(d.height - (y_gui + h_box))>>
    ELSE <<ToUm(x_gui), ToUm(d.height - y_gui)>>

\* Main._infer_pin_side(it): min over the dict N, S, W, E
_infer_pin_side(pin, d) ==
    NearestSide(2 * pin.x + PinSize(d.grid), 2 * pin.y + PinSize(d.grid), CoreOf(d))

\* list.sort(key=...): stable, ascending
StableSortByKeyNoSort(s) == s
RECURSIVE StableSortByKey(_)
StableSortByKey(s) ==
    IF s = <<>> THEN <<>>
    ELSE LET i == CHOOSE k \in 1..Len(s) :
                      /\ \A j \in 1..Len(s) : s[k].key <= s[j].key
                      /\ \A j \in 1..(k - 1) : s[j].key # s[k].key
         IN  <<s[i]>> \o StableSortByKey(SubSeq(s, 1, i - 1) \o SubSeq(s, i + 1, Len(s)))

\* Main._pins_grouped_sorted()[side]: (name, key_um) along one side
_pins_grouped_sorted(pns, d, side) ==
    LET core == CoreOf(d)
        keyOf(pin) ==
            LET ll == _gui_to_ll(pin.x, pin.y, 0, d)
            IN  IF _infer_pin_side(pin, d) \in {"N", "S"}
                THEN ll[1] - ToUm(core.left)
                ELSE ll[2] - ToUm(d.height - core.bottom)
        mine == SelectSeq(pns, LAMBDA pin : _infer_pin_side(pin, d) = side)
    IN  StableSortByKey([k \in 1..Len(mine) |->
                            [name |-> mine[k].name, key |-> keyOf(mine[k])]])

\* next((p for p in self.ports if p["name"] == name), {"width": 1})["width"]
PortWidth(pts, name) ==
    IF \E i \in 1..Len(pts) : pts[i].name = name
    THEN pts[CHOOSE i \in 1..Len(pts) :
                 pts[i].name = name /\ \A j \in 1..(i - 1) : pts[j].name # name].width
    ELSE 1

\* len(_expand_bus(name, width))
ExpandBusLenShort(width) == IF width <= 1 THEN 1 ELSE width - 1
ExpandBusLen(width) == IF width <= 1 THEN 1 ELSE width

\* The offset given to a bit that would not pass the cursor
BumpUnclamped(cursor, step_um, max_off) == cursor + step_um
BumpOffset(cursor, step_um, max_off) == Min(cursor + step_um, max_off)

\* The loop over the bits of one pin, from bit i on
RECURSIVE BitsFrom(_, _, _, _, _, _, _, _, _)
BitsFrom(name, side, width, i, start, step_um, min_off, max_off, cursor) ==
    IF i >= ExpandBusLen(width) THEN [lines |-> <<>>, cursor |-> cursor]
    ELSE LET off0 == Max(min_off, Min(start + i * step_um, max_off))
             off  == IF off0 <= cursor THEN BumpOffset(cursor, step_um, max_off)
                     ELSE off0
             rest == BitsFrom(name, side, width, i + 1, start, step_um,
                              min_off, max_off, off)
         IN  [lines |-> <<[name |-> name, bit |-> IF width <= 1 THEN -1 ELSE i,
                           side |-> side, off |-> off]>> \o rest.lines,
              cursor |-> rest.cursor]

\* The loop over the pins of one side, from pin k on
RECURSIVE SideFrom(_, _, _, _, _, _, _, _)
SideFrom(grp, pts, side, k, step_um, min_off, max_off, cursor) ==
    IF k > Len(grp) THEN <<>>
    ELSE LET width == PortWidth(pts, grp[k].name)
             total_span == step_um * (width - 1)
             ideal_start == PyRound(2 * grp[k].key - total_span, 2)
             lo == Max(min_off, cursor + step_um)
             hi == Max(min_off, max_off - total_span)
             start == Max(lo, Min(ideal_start, hi))
             r == BitsFrom(grp[k].name, side, width, 0, start, step_um,
                           min_off, max_off, cursor)
         IN  r.lines \o SideFrom(grp, pts, side, k + 1, step_um, min_off,
                                 max_off, r.cursor)

\* max_off of a side
SideLength(side, d) ==
    LET core == CoreOf(d)
    IN  IF side \in {"N", "S"}
        THEN ToUm(core.right) - ToUm(core.left)
        ELSE ToUm(d.height - core.top) - ToUm(d.height - core.bottom)

\* Main._write_pin_placement_cfg: the lines of pin_placement.cfg
_write_pin_placement_cfg(pns, pts, d) ==
    LET step_um == Max(ToUm(d.grid), 1)
        sideLines(side) ==
            SideFrom(_pins_grouped_sorted(pns, d, side), pts, side, 1, step_um,
                     0, SideLength(side, d), CURSOR_START)
    IN  sideLines("N") \o sideLines("S") \o sideLines("E") \o sideLines("W")

\* Main._on_export_clicked: the files and the statements of config.tcl
_on_export_clicked(mods, pns, pts, d) ==
    LET wrote_macro == Len(mods) > 0
        total_pin_bits == SumSeq([i \in 1..Len(pts) |-> pts[i].width])
        pp == IF total_pin_bits > 0 THEN _write_pin_placement_cfg(pns, pts, d)
              ELSE <<>>
    IN  [macro |-> [i \in 1..Len(mods) |->
                       LET ll == _gui_to_ll(mods[i].x, mods[i].y, mods[i].h, d)
                       IN  [inst |-> mods[i].inst, x |-> ll[1], y |-> ll[2]]],
         wrote_macro |-> wrote_macro,
         wrote_pins |-> total_pin_bits > 0,
         pin_lines |-> pp,
         warned |-> total_pin_bits > 0 /\ Len(pp) # total_pin_bits,
         fixed_io |-> TRUE,
         pin_cfg_ref |-> total_pin_bits > 0,
         macro_ref |-> wrote_macro]

----------------------------------------------------------------------------
(* Bounds and inputs                                                       *)

MaxBit == 3        \* bit identifiers of the netlists are 1..MaxBit
MaxCells == 3      \* cells of an ingested netlist
MaxProp == 7       \* proposed coordinates are 15*k - 15, k \in 0..MaxProp
MaxWidth == 4      \* bus width of a port
MaxCoord == 8      \* arguments of the coordinate transform are -2..MaxCoord
MaxSnap == 25      \* values snapped on their own are -MaxSnap..MaxSnap
MaxGrid == 6       \* grids of the values snapped on their own are 1..MaxGrid
MaxScenGrid == 25  \* grids of the two-module packing scenario are 1..MaxScenGrid
MaxMargin == 4     \* core margins of that scenario are 0..MaxMargin
MaxGapStep == 12   \* abscissas proposed on the grid of 4 are 4*k, k \in 0..MaxGapStep
MaxPackCells == 4  \* cells of the netlists whose packing is examined
MaxEdit == 2       \* coordinates proposed while editing are 15*k, k \in 0..MaxEdit
MaxProj == 60      \* corners projected on their own are -12..MaxProj on both axes

InstNames == <<(<<"u1">>), (<<"u2">>), (<<"u3">>), (<<"u4">>), (<<"u5">>)>>
AreaChoices == {100, 400}

Cell(inst, area, dbits, qbits) ==
    [inst |-> inst, area |-> area,
     connections |-> <<[port |-> <<"d">>, bits |-> dbits],
                       [port |-> <<"q">>, bits |-> qbits]>>]

Port(name, direction, bits) == [name |-> name, direction |-> direction, bits |-> bits]

Input(hasTop, pts, cells, netnames, dw, dh, grid, margin, fnum, fden, minside) ==
    [hasTop |-> hasTop, ports |-> pts, cells |-> cells, netnames |-> netnames,
     die_w |-> dw, die_h |-> dh, grid |-> grid, core_margin |-> margin,
     frac_num |-> fnum, frac_den |-> fden, min_side_px |-> minside]

\* Netlists for the ingestion: up to MaxCells cells whose d inputs, and the
\* top port clk, hang on bits chosen in 1..MaxBit; u1.q drives bit 1 twice.
IngestInputs ==
    {Input(ht,
           <<Port(<<"clk">>, "input", <<bc>>),
             Port(<<"dout">>, "output", <<2, 3>>)>>,
           [i \in 1..n |->
               Cell(InstNames[i], IF i = 1 THEN a1 ELSE 400,
                    <<IF i = 1 THEN b1 ELSE b2>>,
                    IF i = 1 THEN <<1, 1>> ELSE <<>>)],
           <<[name |-> "n1", bits |-> <<1>>],
             [name |-> "n2", bits |-> <<2, 3>>],
             [name |-> "n3", bits |-> <<>>],
             [name |-> "n4", bits |-> <<3, 3>>]>>,
           200, 200, g, 10, 30, 100, 24) :
        ht \in BOOLEAN, bc \in 1..MaxBit, b1 \in 1..MaxBit, b2 \in 1..MaxBit,
        n \in 0..MaxCells, a1 \in AreaChoices, g \in {4, 8, 20}}

\* Two modules of area 100 and 400 on a 200 x 200 core, side fraction 0.5,
\* minimum side 10
ScenarioInputs ==
    {Input(TRUE, <<>>,
           <<Cell(InstNames[1], 100, <<>>, <<>>), Cell(InstNames[2], 400, <<>>, <<>>)>>,
           <<>>, 200 + 2 * m, 200 + 2 * m, g, m, 50, 100, 10) :
        g \in 1..MaxScenGrid, m \in 0..MaxMargin}

\* Netlists without nets for the row packing: up to MaxPackCells cells of
\* area 100 or 400 on dies 40, 90 and 130 wide with margin 10, side
\* fraction 0.5 and minimum side 10; on the die 40 wide with grid 20 every
\* module is wider than the row.
PackInputs ==
    {Input(TRUE, <<>>,
           [i \in 1..Len(as) |-> Cell(InstNames[i], as[i], <<>>, <<>>)],
           <<>>, dw, 100, g, 10, 50, 100, 10) :
        as \in UNION {[1..n -> AreaChoices] : n \in 0..MaxPackCells},
        dw \in {40, 90, 130}, g \in {1, 4, 20}}

\* Designs for the autoscale at load: one to three cells of area 100 or
\* 400 and a clock port, ingested on a 120 x 120 die with grid 20 and
\* margin 10 or on a 200 x 160 die with grid 8 and margin 12, with a side
\* fraction of 0.10 or 0.50 and a minimum side of 24
ScaleInputs ==
    {Input(TRUE, <<Port(<<"clk">>, "input", <<1>>)>>,
           [i \in 1..Len(as) |-> Cell(InstNames[i], as[i], <<>>, <<>>)],
           <<>>, dd[1], dd[2], dd[3], dd[4], fn, 100, 24) :
        as \in UNION {[1..n -> AreaChoices] : n \in 1..MaxCells},
        dd \in {<<120, 120, 20, 10>>, <<200, 160, 8, 12>>},
        fn \in {10, 50}}

\* Netlists whose two cells take their instance names among u1, u2 and
\* top: the d input of the first and the q output of the second hang on
\* bits of 1..MaxBit, the clock port on bit 1.
NameChoices == {<<"u1">>, <<"u2">>, <<"top">>}
NameInputs ==
    {Input(TRUE, <<Port(<<"clk">>, "input", <<1>>)>>,
           <<Cell(nn[1], a1, <<b1>>, <<>>), Cell(nn[2], 400, <<>>, <<b2>>)>>,
           <<[name |-> "n1", bits |-> <<1>>],
             [name |-> "n2", bits |-> <<2>>],
             [name |-> "n3", bits |-> <<3>>]>>,
           120, 120, 20, 10, 10, 100, 24) :
        nn \in {pr \in NameChoices \X NameChoices : pr[1] # pr[2]},
        a1 \in AreaChoices,
        b1 \in 1..MaxBit, b2 \in 1..MaxBit}

\* Two modules on an 80 x 40 die without margin and with grid 4, where
\* gaps of 4, 8 and 12 between modules can be proposed
GapInput ==
    Input(TRUE, <<>>,
          <<Cell(InstNames[1], 100, <<>>, <<>>), Cell(InstNames[2], 400, <<>>, <<>>)>>,
          <<>>, 80, 40, 4, 0, 35, 100, 32)
GapCoordsX == {4 * k : k \in 0..MaxGapStep}
GapCoordsY == {0, 8}

\* The design opened by the interactive session: n cells, a clock and (when
\* np = 2) a data output, on a 120 x 120 die with grid 20.
GuiInput(n, np, wclk, wout) ==
    Input(TRUE,
          SubSeq(<<Port(<<"clk">>, "input", [k \in 1..wclk |-> 1]),
                   Port(<<"dout">>, "output", [k \in 1..wout |-> 2 + k])>>, 1, np),
          [i \in 1..n |->
              Cell(InstNames[i], IF i = 1 THEN 100 ELSE 400,
                   <<IF i = 1 THEN 1 ELSE 2>>,
                   IF i = 1 THEN <<2>> ELSE <<3>>)],
          <<[name |-> "n1", bits |-> <<1>>],
            [name |-> "n2", bits |-> <<2>>],
            [name |-> "n3", bits |-> <<3, 4>>]>>,
          120, 120, 20, 10, 10, 100, 24)

\* A persisted design may hold nets that build_design would not emit: an
\* endpoint on an unknown instance, a single endpoint, no endpoint.
WithStrayNets(dsn) ==
    [dsn EXCEPT !.nets = @ \o
        <<[name |-> "s1", endpoints |-> <<(<<"u1", ".", "d">>), (<<"zz", ".", "d">>)>>,
           weight |-> 1, bw |-> 1],
          [name |-> "s2", endpoints |-> <<(<<"top", ".", "clk">>)>>,
           weight |-> 0, bw |-> 1],
          [name |-> "s3", endpoints |-> <<>>, weight |-> 0, bw |-> 1]>>]

PropCoords == {15 * k - 15 : k \in 0..MaxProp}

NoLast ==
    [op |-> "none", idx |-> 0, called |-> FALSE, cand |-> <<0, 0>>,
     ok |-> FALSE, ret |-> <<0, 0>>, side |-> "N", input |-> <<>>]

NoDisk ==
    [die |-> [width |-> 0, height |-> 0, grid |-> 1, core_margin |-> 0],
     modules |-> <<>>, ports |-> <<>>, nets |-> <<>>]
NoConn == [mm |-> <<>>, mp |-> <<>>, max_weight |-> 0]
NoExport ==
    [macro |-> <<>>, wrote_macro |-> FALSE, wrote_pins |-> FALSE,
     pin_lines |-> <<>>, warned |-> FALSE, fixed_io |-> FALSE,
     pin_cfg_ref |-> FALSE, macro_ref |-> FALSE]
NoProbe == [fn |-> "none", args |-> <<>>, res |-> <<>>]

\* Nothing of the session exists before Main() is constructed.
SessionOff ==
    /\ gui = "off"
    /\ die = [width |-> 0, height |-> 0, grid |-> 1, core_margin |-> 0]
    /\ modules = <<>> /\ itemPos = <<>> /\ ports = <<>> /\ pins = <<>>
    /\ nets = <<>> /\ conn = NoConn /\ hpwl = 0 /\ export = NoExport
    /\ last = NoLast /\ probe = NoProbe

----------------------------------------------------------------------------
(* Actions                                                                 *)

\* if top not in modules: raise SystemExit(...)
TopMissingIgnored(inp) == FALSE
TopMissing(inp) == ~inp.hasTop

\* ingest_netlist.py main -> build_design: a missing top module ends the
\* run before anything is written.
Ingest(inp) ==
    /\ gui = "off" /\ last.op = "none"
    /\ disk' = IF TopMissing(inp) THEN disk ELSE build_design(inp)
    /\ last' = [NoLast EXCEPT !.op = "ingest", !.ok = ~TopMissing(inp),
                   !.input = inp]
    /\ UNCHANGED <<gui, die, modules, itemPos, ports, pins, nets, conn, hpwl,
                   export, probe>>

\* Main.__init__: load design.json, build the items, place the pins, build
\* the connectivity, autoscale, compute the metric.
Launch ==
    /\ gui = "off" /\ disk # NoDisk
    /\ LET d     == disk.die
           ipos0 == ConstructBlocks(disk.modules,
                        [i \in 1..Len(disk.modules) |-> <<0, 0>>], 1, d)
           pns   == _place_pins_initial(disk.ports, d)
           r     == IF AUTOSCALE_ON_LOAD
                    THEN autoscale_modules(disk.modules, ipos0, d)
                    ELSE [mods |-> disk.modules, ipos |-> ipos0]
       IN  /\ gui' = "on"
           /\ die' = d
           /\ modules' = r.mods
           /\ itemPos' = r.ipos
           /\ ports' = disk.ports
           /\ pins' = pns
           /\ nets' = disk.nets
           /\ conn' = _build_connectivity(disk.nets)
           /\ hpwl' = _update_hpwl(r.mods, r.ipos, pns, d, disk.nets)
           /\ last' = [NoLast EXCEPT !.op = "launch"]
    /\ export' = NoExport
    /\ UNCHANGED <<disk, probe>>

\* The window is closed; design.json stays.
Close ==
    /\ gui = "on"
    /\ gui' = "off"
    /\ die' = [width |-> 0, height |-> 0, grid |-> 1, core_margin |-> 0]
    /\ modules' = <<>> /\ itemPos' = <<>> /\ ports' = <<>> /\ pins' = <<>>
    /\ nets' = <<>> /\ conn' = NoConn /\ hpwl' = 0 /\ export' = NoExport
    /\ last' = NoLast
    /\ UNCHANGED <<disk, probe>>

\* A drag of module i to value: setPos -> BlockItem.itemChange -> _post_move
MoveModule(i, value) ==
    /\ gui = "on"
    /\ LET chg == BlockPositionChange(modules, i, value, die)
           r   == BlockSetPos(modules, itemPos, i, value, die, TRUE)
       IN  /\ modules' = r.mods
           /\ itemPos' = r.ipos
           /\ hpwl' = IF r.ipos # itemPos
                      THEN _update_hpwl(r.mods, r.ipos, pins, die, nets)
                      ELSE hpwl
           /\ last' = [NoLast EXCEPT !.op = "move", !.idx = i,
                          !.called = (itemPos[i] # value), !.cand = chg.cand,
                          !.ok = chg.ok, !.ret = chg.ret]
    /\ UNCHANGED <<disk, gui, die, ports, pins, nets, conn, export, probe>>

\* A drag of pin k to value: setPos -> PinItem.itemChange -> _post_move
MovePin(k, value) ==
    /\ gui = "on"
    /\ LET pr == _project_to_perimeter(value[1], value[2], die)
           p1 == PinSetPos(pins[k], value, die)
           ps == [pins EXCEPT ![k] = p1]
       IN  /\ pins' = ps
           /\ hpwl' = IF ps # pins
                      THEN _update_hpwl(modules, itemPos, ps, die, nets)
                      ELSE hpwl
           /\ last' = [NoLast EXCEPT !.op = "pin", !.idx = k,
                          !.called = (<<pins[k].x, pins[k].y>> # value),
                          !.ret = <<pr.x, pr.y>>, !.side = pr.side]
    /\ UNCHANGED <<disk, gui, die, modules, itemPos, ports, nets, conn, export,
                   probe>>

\* The Guardar button
Save ==
    /\ gui = "on"
    /\ disk' = _on_save_clicked(disk, modules, pins)
    /\ last' = [NoLast EXCEPT !.op = "save"]
    /\ UNCHANGED <<gui, die, modules, itemPos, ports, pins, nets, conn, hpwl,
                   export, probe>>

\* The Exportar OpenLane button
Export ==
    /\ gui = "on"
    /\ export' = _on_export_clicked(modules, pins, ports, die)
    /\ last' = [NoLast EXCEPT !.op = "export"]
    /\ UNCHANGED <<disk, gui, die, modules, itemPos, ports, pins, nets, conn,
                   hpwl, probe>>

\* _gui_to_ll applied to arbitrary arguments on a die of height dh
ApplyGuiToLl(x, y, h, dh) ==
    /\ probe.fn = "none"
    /\ probe' = [fn |-> "_gui_to_ll", args |-> <<x, y, h, dh>>,
                 res |-> _gui_to_ll(x, y, h,
                             [width |-> dh, height |-> dh, grid |-> 1,
                              core_margin |-> 0])]
    /\ UNCHANGED <<disk, gui, die, modules, itemPos, ports, pins, nets, conn,
                   hpwl, export, last>>

\* _snap applied to a value v on a grid g
ApplySnap(v, g) ==
    /\ probe.fn = "none"
    /\ probe' = [fn |-> "_snap", args |-> <<v, g>>, res |-> <<_snap(v, g)>>]
    /\ UNCHANGED <<disk, gui, die, modules, itemPos, ports, pins, nets, conn,
                   hpwl, export, last>>

\* _snap applied again to its own result, on the same grid
ApplySnapAgain ==
    /\ probe.fn = "_snap"
    /\ probe' = [fn |-> "_snap_snap", args |-> probe.args,
                 res |-> <<probe.res[1], _snap(probe.res[1], probe.args[2])>>]
    /\ UNCHANGED <<disk, gui, die, modules, itemPos, ports, pins, nets, conn,
                   hpwl, export, last>>

\* PinItem._project_to_perimeter applied to a proposed corner (x, y) of a
\* pin item built for the die d
ApplyProject(x, y, d) ==
    /\ probe.fn = "none"
    /\ probe' = [fn |-> "_project_to_perimeter", args |-> <<x, y, d>>,
                 res |-> <<_project_to_perimeter(x, y, d)>>]
    /\ UNCHANGED <<disk, gui, die, modules, itemPos, ports, pins, nets, conn,
                   hpwl, export, last>>

\* Main._infer_pin_side applied to the pin item sitting where the projector
\* put it
ApplyInferSide ==
    /\ probe.fn = "_project_to_perimeter"
    /\ probe' = [fn |-> "_infer_pin_side", args |-> probe.args,
                 res |-> <<probe.res[1],
                           _infer_pin_side(probe.res[1], probe.args[3])>>]
    /\ UNCHANGED <<disk, gui, die, modules, itemPos, ports, pins, nets, conn,
                   hpwl, export, last>>

----------------------------------------------------------------------------
(* Specifications                                                          *)

\* The ingestion script run on any of the netlists
InitIngest == disk = NoDisk /\ SessionOff
NextIngest == \E inp \in IngestInputs : Ingest(inp)
SpecIngest == InitIngest /\ [][NextIngest]_vars

\* A session in which modules are dragged
InitMove ==
    /\ disk = WithStrayNets(build_design(GuiInput(2, 2, 1, 2)))
    /\ SessionOff
NextMove ==
    \/ Launch
    \/ \E i \in 1..Len(modules), vx \in PropCoords, vy \in PropCoords :
           MoveModule(i, <<vx, vy>>)
SpecMove == InitMove /\ [][NextMove]_vars

\* A session in which pins are dragged and the design is then exported
InitPin ==
    /\ \E w \in 1..MaxWidth : disk = build_design(GuiInput(2, 2, w, MaxWidth))
    /\ SessionOff
NextPin ==
    \/ Launch
    \/ \E k \in 1..Len(pins), vx \in PropCoords, vy \in PropCoords :
           last.op # "export" /\ MovePin(k, <<vx, vy>>)
    \/ Export
SpecPin == InitPin /\ [][NextPin]_vars

\* Sessions on every ingested design: the connectivity built at load
InitConn ==
    /\ \E inp \in IngestInputs :
           inp.hasTop /\ inp.grid = 20 /\ disk = build_design(inp)
    /\ SessionOff
NextConn == Launch \/ Close
SpecConn == InitConn /\ [][NextConn]_vars

\* Edit, save, close and open again: one module and one pin are dragged
\* until the design is saved.
Saved(dsn) == \E i \in 1..Len(dsn.ports) : dsn.ports[i].hasxy
InitRoundTrip == disk = build_design(GuiInput(1, 1, 1, 1)) /\ SessionOff
NextRoundTrip ==
    \/ Launch
    \/ \E i \in 1..Len(modules), vx \in PropCoords, vy \in PropCoords :
           ~Saved(disk) /\ MoveModule(i, <<vx, vy>>)
    \/ \E k \in 1..Len(pins), vx \in PropCoords, vy \in PropCoords :
           ~Saved(disk) /\ MovePin(k, <<vx, vy>>)
    \/ Save
    \/ Close
SpecRoundTrip == InitRoundTrip /\ [][NextRoundTrip]_vars

\* The coordinate transform on its own
InitProbe == disk = NoDisk /\ SessionOff
NextProbe ==
    \E x \in -2..MaxCoord, y \in -2..MaxCoord, h \in -2..MaxCoord :
        ApplyGuiToLl(x, y, h, 10)
SpecProbe == InitProbe /\ [][NextProbe]_vars

\* Sessions that export designs with and without modules and ports
InitExport ==
    /\ \E n \in 0..1, np \in 0..2 : disk = build_design(GuiInput(n, np, 1, 2))
    /\ SessionOff
NextExport ==
    \/ Launch
    \/ \E k \in 1..Len(pins), vx \in PropCoords, vy \in PropCoords :
           last.op # "export" /\ MovePin(k, <<vx, vy>>)
    \/ Export
    \/ Close
SpecExport == InitExport /\ [][NextExport]_vars

\* The snap on its own, once and twice
InitSnap == disk = NoDisk /\ SessionOff
NextSnap ==
    \/ \E v \in -MaxSnap..MaxSnap, g \in 1..MaxGrid : ApplySnap(v, g)
    \/ ApplySnapAgain
SpecSnap == InitSnap /\ [][NextSnap]_vars

\* The ingestion script run on the two-module scenario
InitScenario == disk = NoDisk /\ SessionOff
NextScenario == \E inp \in ScenarioInputs : Ingest(inp)
SpecScenario == InitScenario /\ [][NextScenario]_vars

\* A session in which modules are dragged on a grid finer than the halo
InitGap == disk = build_design(GapInput) /\ SessionOff
NextGap ==
    \/ Launch
    \/ \E i \in 1..Len(modules), vx \in GapCoordsX, vy \in GapCoordsY :
           MoveModule(i, <<vx, vy>>)
SpecGap == InitGap /\ [][NextGap]_vars

\* The ingestion script run on the packing netlists
InitPack == disk = NoDisk /\ SessionOff
NextPack == \E inp \in PackInputs : Ingest(inp)
SpecPack == InitPack /\ [][NextPack]_vars

\* A session in which modules and pins are both dragged
EditCoords == {15 * k : k \in 0..MaxEdit}
InitEdit == disk = build_design(GuiInput(2, 2, 1, 2)) /\ SessionOff
NextEdit ==
    \/ Launch
    \/ \E i \in 1..Len(modules), vx \in EditCoords, vy \in EditCoords :
           MoveModule(i, <<vx, vy>>)
    \/ \E k \in 1..Len(pins), vx \in EditCoords, vy \in EditCoords :
           MovePin(k, <<vx, vy>>)
SpecEdit == InitEdit /\ [][NextEdit]_vars

\* Netlists with any instance names, ingested and then opened
InitNames == disk = NoDisk /\ SessionOff
NextNames == (\E inp \in NameInputs : Ingest(inp)) \/ Launch \/ Close
SpecNames == InitNames /\ [][NextNames]_vars

\* Designs loaded, saved, closed and loaded again
InitAutoscale == (\E inp \in ScaleInputs : disk = build_design(inp)) /\ SessionOff
NextAutoscale == Launch \/ Save \/ Close
SpecAutoscale == InitAutoscale /\ [][NextAutoscale]_vars

\* The pin projector on its own, followed by the side inference of the
\* export: a square die with grid 20 and a flat one with grid 8
ProjDies ==
    {[width |-> 60, height |-> 60, grid |-> 20, core_margin |-> 10],
     [width |-> 50, height |-> 36, grid |-> 8, core_margin |-> 6]}
InitProject == disk = NoDisk /\ SessionOff
NextProject ==
    \/ \E x \in -12..MaxProj, y \in -12..MaxProj, d \in ProjDies :
           ApplyProject(x, y, d)
    \/ ApplyInferSide
SpecProject == InitProject /\ [][NextProject]_vars

Spec == SpecMove

----------------------------------------------------------------------------
(* Properties                                                              *)

HaloRect(m) == Adjusted(Rect(m.x, m.y, m.w, m.h), HALO_PX)

\* C1: every module move that itemChange accepts, for a module no larger
\* than the Core, returns a top-left whose rectangle lies within the Core
\* and whose halo-expanded rectangle meets no other module's halo-expanded
\* rectangle.
C1_AcceptedMoveInCoreAndClear ==
    (last.op = "move" /\ last.called /\ last.ok) =>
        LET m    == modules[last.idx]
            core == CoreOf(die)
            x    == last.ret[1]
            y    == last.ret[2]
        IN  (m.w <= core.right - core.left /\ m.h <= core.bottom - core.top) =>
            /\ core.left <= x /\ x <= core.right - m.w
            /\ core.top <= y /\ y <= core.bottom - m.h
            /\ \A j \in 1..Len(modules) :
                   j # last.idx =>
                       ~Intersects(Adjusted(Rect(x, y, m.w, m.h), HALO_PX),
                                   HaloRect(modules[j]))

\* An accepted move that was applied next to another module
C1_Witness ==
    /\ last.op = "move" /\ last.called /\ last.ok /\ Len(modules) >= 2
    /\ <<modules[last.idx].x, modules[last.idx].y>> = last.ret
    /\ \E j \in 1..Len(modules) :
           j # last.idx /\ modules[j].x + modules[j].w + 2 * HALO_PX > last.ret[1]

\* C2: after the initial row packing, and after any module moves that
\* follow, no two modules' halo-expanded rectangles intersect.
C2_NoHaloOverlap ==
    /\ \A i, j \in 1..Len(disk.modules) :
           i # j => ~Intersects(HaloRect(disk.modules[i]), HaloRect(disk.modules[j]))
    /\ \A i, j \in 1..Len(modules) :
           i # j => ~Intersects(HaloRect(modules[i]), HaloRect(modules[j]))

\* C3: a module move that collides is rejected: the position applied is
\* the recorded (x, y) and the module records do not change; nothing of
\* the rejected candidate is applied in either axis.
C3_RejectedMoveKeepsRecord ==
    [][(last'.op = "move" /\ last'.called /\ ~last'.ok) =>
           /\ modules' = modules
           /\ itemPos'[last'.idx] =
                  <<modules[last'.idx].x, modules[last'.idx].y>>
           /\ \A j \in 1..Len(modules) :
                  j # last'.idx => itemPos'[j] = itemPos[j]]_vars

\* A rejected move whose candidate differs from the record in both axes
C3_Witness ==
    /\ last.op = "move" /\ last.called /\ ~last.ok
    /\ last.cand[1] # modules[last.idx].x
    /\ last.cand[2] # modules[last.idx].y
    /\ itemPos[last.idx] = <<modules[last.idx].x, modules[last.idx].y>>

\* C4: the position returned by _project_to_perimeter has the coordinate
\* perpendicular to the returned side equal to the Core edge (y = core.top
\* for N, y = core.bottom for S, x = core.left for W, x = core.right for E)
\* and the other coordinate within [sideStart, sideEnd - pinSize].
C4_PinOnCoreEdge ==
    (last.op = "pin" /\ last.called) =>
        LET core == CoreOf(die)
            size == PinSize(die.grid)
            x    == last.ret[1]
            y    == last.ret[2]
        IN  CASE last.side = "N" ->
                   y = core.top /\ core.left <= x /\ x <= core.right - size
              [] last.side = "S" ->
                   y = core.bottom /\ core.left <= x /\ x <= core.right - size
              [] last.side = "W" ->
                   x = core.left /\ core.top <= y /\ y <= core.bottom - size
              [] last.side = "E" ->
                   x = core.right /\ core.top <= y /\ y <= core.bottom - size

\* C4 as the code has it: the pin square lies outside the Core, flush with
\* the edge of the returned side (y = core.top - pinSize for N,
\* y = core.bottom for S, x = core.left - pinSize for W, x = core.right for
\* E); the other coordinate lies within
\* [sideStart, max(sideStart, sideEnd - pinSize)]; the pin record holds the
\* returned position and side.
C4_PinFlushOutsideCore ==
    (last.op = "pin" /\ last.called) =>
        LET core == CoreOf(die)
            size == PinSize(die.grid)
            x    == last.ret[1]
            y    == last.ret[2]
        IN  /\ CASE last.side = "N" ->
                      /\ y = core.top - size
                      /\ core.left <= x
                      /\ x <= Max(core.left, core.right - size)
                 [] last.side = "S" ->
                      /\ y = core.bottom
                      /\ core.left <= x
                      /\ x <= Max(core.left, core.right - size)
                 [] last.side = "W" ->
                      /\ x = core.left - size
                      /\ core.top <= y
                      /\ y <= Max(core.top, core.bottom - size)
                 [] last.side = "E" ->
                      /\ x = core.right
                      /\ core.top <= y
                      /\ y <= Max(core.top, core.bottom - size)
            /\ pins[last.idx].x = x /\ pins[last.idx].y = y
            /\ pins[last.idx].side = last.side

\* A pin dragged to the west side and clamped at the top of its span
C4_Witness ==
    /\ last.op = "pin" /\ last.called /\ last.side = "W"
    /\ pins[last.idx].y = CoreOf(die).top
    /\ pins[last.idx].x = CoreOf(die).left - PinSize(die.grid)

\* C5: in the pin placement file the offsets of the bit lines of one side
\* are strictly increasing in emission order.
C5_OffsetsStrictlyIncreasing ==
    last.op = "export" =>
        \A i, j \in 1..Len(export.pin_lines) :
            (i < j /\ export.pin_lines[i].side = export.pin_lines[j].side) =>
                export.pin_lines[i].off < export.pin_lines[j].off

\* What the nets ns say, read off their endpoints one by one
AllEps(ns) == UNION {Range(ns[k].endpoints) : k \in 1..Len(ns)}
InstsOf(ns) == {SplitHead(ep) : ep \in {e \in AllEps(ns) : ~IsTopEp(e)}}
PinsOf(ns) == {SplitTail(ep) : ep \in {e \in AllEps(ns) : IsTopEp(e)}}
NetHasInst(n, A) ==
    \E e \in 1..Len(n.endpoints) :
        ~IsTopEp(n.endpoints[e]) /\ SplitHead(n.endpoints[e]) = A
NetHasPin(n, P) ==
    \E e \in 1..Len(n.endpoints) :
        IsTopEp(n.endpoints[e]) /\ SplitTail(n.endpoints[e]) = P
SumBwOver(ns, S) ==
    SumSeq([k \in 1..Len(ns) |-> IF k \in S THEN ns[k].bw ELSE 0])
EdgeWeight(map, key) == IF key \in DOMAIN map THEN map[key] ELSE 0

\* C6: the weight of a module-module edge {A, B}, A # B, is the sum of bw
\* over the nets whose endpoints include both instances, the weight of a
\* module-pin edge (M, P) is the sum of bw over the nets holding both, each
\* net counted once per pair; net {top.clk, u1.d, u2.d} with bw 2 gives
\* (u1,u2) = 2, (u1,clk) = 2, (u2,clk) = 2.
C6_ConnectivityWeights ==
    /\ gui = "on" =>
         /\ \A A \in InstsOf(nets), B \in InstsOf(nets) :
               A # B =>
                  EdgeWeight(conn.mm, <<A, B>>) + EdgeWeight(conn.mm, <<B, A>>)
                     = SumBwOver(nets, {k \in 1..Len(nets) :
                            NetHasInst(nets[k], A) /\ NetHasInst(nets[k], B)})
         /\ \A k \in DOMAIN conn.mm :
               k[1] # k[2] /\ k[1] \in InstsOf(nets) /\ k[2] \in InstsOf(nets)
         /\ \A M \in InstsOf(nets), P \in PinsOf(nets) :
               EdgeWeight(conn.mp, <<M, P>>)
                  = SumBwOver(nets, {k \in 1..Len(nets) :
                         NetHasInst(nets[k], M) /\ NetHasPin(nets[k], P)})
         /\ DOMAIN conn.mp \subseteq InstsOf(nets) \X PinsOf(nets)
    /\ LET ex == _build_connectivity(
                    <<[name |-> "e",
                       endpoints |-> <<(<<"top", ".", "clk">>), (<<"u1", ".", "d">>),
                                       (<<"u2", ".", "d">>)>>,
                       weight |-> 2, bw |-> 2]>>)
       IN  /\ DOMAIN ex.mm = {<<(<<"u1">>), (<<"u2">>)>>}
           /\ ex.mm[<<(<<"u1">>), (<<"u2">>)>>] = 2
           /\ DOMAIN ex.mp = {<<(<<"u1">>), (<<"clk">>)>>, <<(<<"u2">>), (<<"clk">>)>>}
           /\ \A k \in DOMAIN ex.mp : ex.mp[k] = 2

\* A loaded design with a net that holds two endpoints of one instance next
\* to a top pin, and a pair of instances that share two nets
C6_Witness ==
    /\ gui = "on"
    /\ \E k \in 1..Len(nets) :
          /\ Len(NetModListNoDedup(nets[k].endpoints))
                > Cardinality(Range(NetModListNoDedup(nets[k].endpoints)))
          /\ NetPins(nets[k].endpoints) # {}
    /\ \E key \in DOMAIN conn.mm :
          Cardinality({k \in 1..Len(nets) :
              NetHasInst(nets[k], key[1]) /\ NetHasInst(nets[k], key[2])}) >= 2

\* The doubled centers of the endpoints of eps that resolve, by index
RefResolved(eps) ==
    {e \in 1..Len(eps) :
        IF IsTopEp(eps[e])
        THEN \E k \in 1..Len(pins) : pins[k].name = SplitTail(eps[e])
        ELSE \E i \in 1..Len(modules) : modules[i].inst = SplitHead(eps[e])}
RefCenter(ep) ==
    IF IsTopEp(ep)
    THEN LET k == CHOOSE j \in 1..Len(pins) : pins[j].name = SplitTail(ep)
         IN  <<2 * pins[k].x + PinSize(die.grid), 2 * pins[k].y + PinSize(die.grid)>>
    ELSE LET i == CHOOSE j \in 1..Len(modules) : modules[j].inst = SplitHead(ep)
         IN  <<2 * itemPos[i][1] + modules[i].w, 2 * itemPos[i][2] + modules[i].h>>
RefHpwl(eps) ==
    IF Cardinality(RefResolved(eps)) < 2 THEN 0
    ELSE LET R == RefResolved(eps)
         IN  MaxOfSet({RefCenter(eps[a])[1] - RefCenter(eps[b])[1] : a \in R, b \in R})
             + MaxOfSet({RefCenter(eps[a])[2] - RefCenter(eps[b])[2] : a \in R, b \in R})

\* C7: _hpwl_net is 0 for a net with 0 or 1 resolved endpoints and otherwise
\* (max x - min x) + (max y - min y) over the centers of the resolved
\* endpoints; points (0,0) and (10,6) give 16.  Lengths are doubled here.
C7_HpwlOfNet ==
    /\ gui = "on" =>
         /\ \A k \in 1..Len(nets) :
               _hpwl_net(modules, itemPos, pins, die, nets[k].endpoints)
                  = RefHpwl(nets[k].endpoints)
         /\ hpwl = SumSeq([k \in 1..Len(nets) |-> RefHpwl(nets[k].endpoints)])
    /\ HpwlOfPts(<<(<<0, 0>>), (<<20, 12>>)>>) = 2 * 16
    /\ HpwlOfPts(<<(<<20, 12>>)>>) = 0
    /\ HpwlOfPts(<<>>) = 0

\* After a drag: a net with one resolved endpoint, a net with none, and a
\* net that spans both axes
C7_Witness ==
    /\ gui = "on" /\ last.op = "move" /\ last.called /\ last.ok
    /\ \E k \in 1..Len(nets) : Cardinality(RefResolved(nets[k].endpoints)) = 1
    /\ \E k \in 1..Len(nets) : Cardinality(RefResolved(nets[k].endpoints)) = 0
    /\ \E k \in 1..Len(nets) :
          LET R == RefResolved(nets[k].endpoints)
              eps == nets[k].endpoints
          IN  \E a \in R, b \in R :
                 /\ RefCenter(eps[a])[1] # RefCenter(eps[b])[1]
                 /\ RefCenter(eps[a])[2] # RefCenter(eps[b])[2]

\* The endpoints the netlist attaches to the bits of a net
DeclEndpoints(inp, bits) ==
    UNION {{FmtEndpoint(inp.cells[c].inst, inp.cells[c].connections[p].port) :
              p \in {q \in 1..Len(inp.cells[c].connections) :
                       Range(inp.cells[c].connections[q].bits) \cap Range(bits) # {}}} :
           c \in 1..Len(inp.cells)}
    \cup {FmtEndpoint(<<"top">>, inp.ports[q].name) :
            q \in {r \in 1..Len(inp.ports) :
                     Range(inp.ports[r].bits) \cap Range(bits) # {}}}

\* C8: build_design emits a net for a declared netname exactly when the
\* endpoints attached to its bits number at least two distinct ones; the
\* emitted endpoints are that set, in ascending order without duplicates,
\* and bw = max(1, number of bits).
C8_NetsEmitted ==
    (last.op = "ingest" /\ last.ok) =>
        LET inp  == last.input
            kept == SelectSeq(inp.netnames,
                        LAMBDA n : Cardinality(DeclEndpoints(inp, n.bits)) >= 2)
        IN  /\ Len(disk.nets) = Len(kept)
            /\ \A k \in 1..Len(kept) :
                  LET eps == disk.nets[k].endpoints
                  IN  /\ disk.nets[k].name = kept[k].name
                      /\ Range(eps) = DeclEndpoints(inp, kept[k].bits)
                      /\ \A i, j \in 1..Len(eps) : i < j => StrLess(eps[i], eps[j])
                      /\ disk.nets[k].bw = Max(1, Len(kept[k].bits))

\* An ingestion that drops a net with a single endpoint and emits a net
\* whose bits repeat an endpoint
C8_Witness ==
    /\ last.op = "ingest" /\ last.ok
    /\ \E k \in 1..Len(last.input.netnames) :
          Cardinality(DeclEndpoints(last.input, last.input.netnames[k].bits)) = 1
    /\ \E k \in 1..Len(disk.nets) :
          /\ disk.nets[k].name = "n1"
          /\ <<"top", ".", "clk">> \in Range(disk.nets[k].endpoints)
          /\ <<"u1", ".", "q">> \in Range(disk.nets[k].endpoints)

\* C9: saving the design and loading it again reproduces the (x, y) of
\* every module and the (x, y, side) of every pin.
C9_RoundTrip ==
    (last.op = "launch" /\ Saved(disk)) =>
        /\ Len(modules) = Len(disk.modules) /\ Len(pins) = Len(disk.ports)
        /\ \A i \in 1..Len(modules) :
              /\ modules[i].x = disk.modules[i].x
              /\ modules[i].y = disk.modules[i].y
        /\ \A k \in 1..Len(pins) :
              /\ pins[k].x = disk.ports[k].x
              /\ pins[k].y = disk.ports[k].y
              /\ pins[k].side = disk.ports[k].side

\* C10: _gui_to_ll maps a rectangle (x, y, h) to
\* (x * pxToUnit, (dieHeight - (y + h)) * pxToUnit) and a point to
\* (x * pxToUnit, (dieHeight - y) * pxToUnit); with pxToUnit = 1, (x, y) is
\* recovered as (xOut, dieHeight - h - yOut).
C10_GuiToLl ==
    (probe.fn = "_gui_to_ll" /\ PX_TO_UM_DEN = 1) =>
        LET x  == probe.args[1]
            y  == probe.args[2]
            h  == probe.args[3]
            dh == probe.args[4]
        IN  /\ probe.res[1] = x * PX_TO_UM_NUM
            /\ h # 0 => probe.res[2] = (dh - (y + h)) * PX_TO_UM_NUM
            /\ h = 0 => probe.res[2] = (dh - y) * PX_TO_UM_NUM
            /\ PX_TO_UM_NUM = 1 =>
                  <<probe.res[1], dh - h - probe.res[2]>> = <<x, y>>

\* The transform applied to a rectangle with a height, away from the origin
C10_Witness ==
    /\ probe.fn = "_gui_to_ll"
    /\ probe.args[1] > 0 /\ probe.args[2] > 0 /\ probe.args[3] > 0
    /\ probe.res[2] # probe.args[4] - probe.args[2]

\* C11: the backend configuration enables fixed I/O placement only if at
\* least one pin bit was exported; with a port width sum of 0 (no pin
\* placement file) it holds no statement enabling fixed I/O placement.
C11_FixedIoOnlyWithPinBits ==
    (last.op = "export" /\ ~export.wrote_pins) => ~export.fixed_io

\* The ports have unique names and a bus width of at least 1
PortsWellFormed(pts) ==
    /\ \A i \in 1..Len(pts) : pts[i].width >= 1
    /\ \A i, j \in 1..Len(pts) : i # j => pts[i].name # pts[j].name

\* C12: for ports with unique names and width >= 1, the number of bit lines
\* of the pin placement file, over all sides, is the sum of the port widths,
\* and the consistency check of the export reports no mismatch.
C12_BitLinesMatchWidths ==
    (last.op = "export" /\ PortsWellFormed(ports)) =>
        /\ Len(export.pin_lines) = SumSeq([i \in 1..Len(ports) |-> ports[i].width])
        /\ ~export.warned

\* An export of a scalar and a bus that sit on different sides
C12_Witness ==
    /\ last.op = "export" /\ PortsWellFormed(ports) /\ export.wrote_pins
    /\ \E i \in 1..Len(ports) : ports[i].width = 1
    /\ \E i \in 1..Len(ports) : ports[i].width > 1
    /\ \E i, j \in 1..Len(export.pin_lines) :
          export.pin_lines[i].side # export.pin_lines[j].side

\* C13: when the requested top module is absent from the netlist,
\* build_design ends with a fatal error before anything else: the run is
\* reported as failed and the design file is left as it was.
C13_MissingTopIsFatal ==
    [][(last'.op = "ingest" /\ ~last'.input.hasTop) =>
           (~last'.ok /\ disk' = disk)]_vars

\* A run on a netlist that has cells and nets but not the requested top
C13_Witness ==
    /\ last.op = "ingest" /\ ~last.input.hasTop /\ ~last.ok
    /\ Len(last.input.cells) >= 2
    /\ disk = NoDisk

\* The endpoints of eps that name a module or a pin of the session
Resolves(ep) ==
    IF IsTopEp(ep)
    THEN \E k \in 1..Len(pins) : pins[k].name = SplitTail(ep)
    ELSE \E i \in 1..Len(modules) : modules[i].inst = SplitHead(ep)
KnownEps(eps) == SelectSeq(eps, Resolves)

\* C14: in _hpwl_net an endpoint whose instance or pin is unknown is
\* skipped: the HPWL of a net is that of the net without its unresolvable
\* endpoints, and the total is the total over the nets so stripped.
C14_UnknownEndpointsSkipped ==
    gui = "on" =>
        /\ \A k \in 1..Len(nets) :
              _hpwl_net(modules, itemPos, pins, die, nets[k].endpoints)
                 = _hpwl_net(modules, itemPos, pins, die, KnownEps(nets[k].endpoints))
        /\ hpwl = _update_hpwl(modules, itemPos, pins, die,
                      [k \in 1..Len(nets) |->
                          [nets[k] EXCEPT !.endpoints = KnownEps(@)]])

\* After a drag: a net that mixes a known and an unknown endpoint, beside
\* nets of positive length
C14_Witness ==
    /\ gui = "on" /\ last.op = "move" /\ last.called /\ hpwl > 0
    /\ \E k \in 1..Len(nets) :
          /\ \E e \in 1..Len(nets[k].endpoints) : Resolves(nets[k].endpoints[e])
          /\ \E e \in 1..Len(nets[k].endpoints) : ~Resolves(nets[k].endpoints[e])

\* C15: _snap is idempotent: _snap(_snap(v, g), g) = _snap(v, g) for all v
\* and all g > 0.
C15_SnapIdempotent ==
    probe.fn = "_snap_snap" => probe.res[2] = probe.res[1]

\* A value off the grid, below zero, snapped twice to a nonzero multiple
C15_Witness ==
    /\ probe.fn = "_snap_snap"
    /\ probe.args[1] < 0 /\ probe.args[2] > 1
    /\ probe.args[1] % probe.args[2] # 0
    /\ probe.res[1] # 0 /\ probe.res[1] # probe.args[1]

\* The nets ns with the endpoints of net k put in the order perm
Reordered(ns, k, perm) ==
    [ns EXCEPT ![k].endpoints = [e \in 1..Len(@) |-> @[perm[e]]]]

\* C16: _pair(A, B) = _pair(B, A); the module-module edges and weights of
\* _build_connectivity stay the same however the endpoints inside a net are
\* ordered, and no pair is stored under both orientations.
C16_ConnectivitySymmetric ==
    gui = "on" =>
        /\ \A A \in InstsOf(nets), B \in InstsOf(nets) : _pair(A, B) = _pair(B, A)
        /\ \A key \in DOMAIN conn.mm :
              key[1] # key[2] /\ <<key[2], key[1]>> \notin DOMAIN conn.mm
        /\ \A k \in 1..Len(nets) :
              \A perm \in Permutations(1..Len(nets[k].endpoints)) :
                 _build_connectivity(Reordered(nets, k, perm)).mm = conn.mm

\* A loaded design with two or more edges and a net of three instances
C16_Witness ==
    /\ gui = "on"
    /\ Cardinality(DOMAIN conn.mm) >= 2
    /\ \E k \in 1..Len(nets) : Len(NetModList(nets[k].endpoints)) >= 3

\* The input is the two-module scenario: areas 100 and 400, side fraction
\* 0.5, minimum side 10, core 200 x 200
IsScenario(inp) ==
    /\ Len(inp.cells) = 2
    /\ inp.cells[1].area = 100 /\ inp.cells[2].area = 400
    /\ inp.frac_num * 2 = inp.frac_den /\ inp.min_side_px = 10
    /\ inp.die_w - 2 * inp.core_margin = 200
    /\ inp.die_h - 2 * inp.core_margin = 200

\* The two modules stand in one row, first before second, without overlap
RowPackedPair(mods) ==
    /\ mods[1].y = mods[2].y
    /\ mods[1].x + mods[1].w <= mods[2].x
    /\ ~Intersects(Rect(mods[1].x, mods[1].y, mods[1].w, mods[1].h),
                   Rect(mods[2].x, mods[2].y, mods[2].w, mods[2].h))

\* C17: two modules of area 100 and 400 with maxSideFrac 0.5, minSidePx 10
\* and a 200 x 200 core get sides 10 and 20 from build_design and are
\* placed without overlap in row-packed order.
C17_ScenarioSides10And20 ==
    (last.op = "ingest" /\ last.ok /\ IsScenario(last.input)) =>
        /\ Len(disk.modules) = 2
        /\ disk.modules[1].w = 10 /\ disk.modules[1].h = 10
        /\ disk.modules[2].w = 20 /\ disk.modules[2].h = 20
        /\ RowPackedPair(disk.modules)

\* C17 as the code has it: for a grid of at most 25 (so that the minimum
\* side max(2*grid, 10) is at most 50) the sides are 50 and 100 (target
\* side 100, scale 5); the modules stand in one row, a grid apart, in
\* cell order, without overlap.
C17_ScenarioSides50And100 ==
    (last.op = "ingest" /\ last.ok /\ IsScenario(last.input)
        /\ 2 * last.input.grid <= 50) =>
        /\ Len(disk.modules) = 2
        /\ disk.modules[1].inst = last.input.cells[1].inst
        /\ disk.modules[2].inst = last.input.cells[2].inst
        /\ disk.modules[1].w = 50 /\ disk.modules[1].h = 50
        /\ disk.modules[2].w = 100 /\ disk.modules[2].h = 100
        /\ disk.modules[1].x = last.input.core_margin + last.input.grid
        /\ disk.modules[2].x = disk.modules[1].x + 50 + last.input.grid
        /\ RowPackedPair(disk.modules)

\* The scenario packed on the largest grid that keeps the side of 50
C17_Witness ==
    /\ last.op = "ingest" /\ last.ok /\ IsScenario(last.input)
    /\ 2 * last.input.grid = 50
    /\ Len(disk.modules) = 2 /\ disk.modules[2].w = 100

\* N, S, E, W as 1..4
SideRank(side) ==
    CASE side = "N" -> 1 [] side = "S" -> 2 [] side = "E" -> 3 [] side = "W" -> 4

\* The coordinate of the pin called name along the side, in backend units,
\* from the near edge of the Core
AlongSide(name, side) ==
    LET k    == CHOOSE j \in 1..Len(pins) : pins[j].name = name
        core == CoreOf(die)
    IN  IF side \in {"N", "S"}
        THEN ToUm(pins[k].x) - ToUm(core.left)
        ELSE ToUm(die.height - pins[k].y) - ToUm(die.height - core.bottom)

\* C18: the pin placement file lists all N lines, then S, then E, then W;
\* within a side the pins come in ascending order of their coordinate
\* along the side, and the bits of one pin are contiguous, in index order
\* 0..width-1.
C18_SideMajorSortedContiguous ==
    last.op = "export" =>
        LET L == export.pin_lines
        IN  /\ \A i, j \in 1..Len(L) :
                  i < j => SideRank(L[i].side) <= SideRank(L[j].side)
            /\ \A i, j \in 1..Len(L) :
                  (i < j /\ L[i].side = L[j].side) =>
                      AlongSide(L[i].name, L[i].side) <= AlongSide(L[j].name, L[j].side)
            /\ \A i \in 1..Len(L) :
                  LET w == PortWidth(ports, L[i].name)
                  IN  IF w <= 1
                      THEN /\ L[i].bit = -1
                           /\ \A j \in 1..Len(L) : L[j].name = L[i].name => j = i
                      ELSE /\ L[i].bit \in 0..(w - 1)
                           /\ L[i].bit > 0 =>
                                 /\ i > 1
                                 /\ L[i - 1].name = L[i].name
                                 /\ L[i - 1].bit = L[i].bit - 1
                           /\ L[i].bit < w - 1 =>
                                 /\ i < Len(L)
                                 /\ L[i + 1].name = L[i].name
                                 /\ L[i + 1].bit = L[i].bit + 1
                           /\ \A j \in 1..Len(L) :
                                 (L[j].name = L[i].name /\ L[j].bit = L[i].bit) => j = i

\* An export in which the bus, second in the design, comes first on a side
\* it shares with a scalar
C18_Witness ==
    /\ last.op = "export" /\ Len(pins) = 2
    /\ PortWidth(ports, pins[1].name) = 1 /\ PortWidth(ports, pins[2].name) > 1
    /\ Len(export.pin_lines) >= 3
    /\ export.pin_lines[1].name = pins[2].name
    /\ export.pin_lines[Len(export.pin_lines)].name = pins[1].name
    /\ export.pin_lines[1].side = export.pin_lines[Len(export.pin_lines)].side
    /\ export.pin_lines[1].side # "N"

\* The free space between rectangles a and b along x and along y
GapX(a, b) == Max(b.x - (a.x + a.w), a.x - (b.x + b.w))
GapY(a, b) == Max(b.y - (a.y + a.h), a.y - (b.y + b.h))
SeparatedBy(a, b, gap) == GapX(a, b) >= gap \/ GapY(a, b) >= gap

\* C20: a proposed module position is accepted exactly when the candidate
\* rectangle is separated from every other module's rectangle by a gap of
\* at least 2*halo along x or along y; a gap of exactly 2*halo is accepted,
\* a smaller one rejected, and the test gives the same answer with the
\* roles of the two rectangles swapped.
C20_AcceptedIffGapTwiceHalo ==
    (last.op = "move" /\ last.called) =>
        LET m == modules[last.idx]
            c == Rect(last.cand[1], last.cand[2], m.w, m.h)
            R(j) == Rect(modules[j].x, modules[j].y, modules[j].w, modules[j].h)
            others == (1..Len(modules)) \ {last.idx}
        IN  /\ last.ok <=> \A j \in others : SeparatedBy(c, R(j), 2 * HALO_PX)
            /\ \A j \in others :
                  /\ can_place_fn(<<modules[j]>>, c, m.inst)
                        <=> SeparatedBy(c, R(j), 2 * HALO_PX)
                  /\ can_place_fn(<<[m EXCEPT !.x = c.x, !.y = c.y]>>, R(j),
                                  modules[j].inst)
                        <=> can_place_fn(<<modules[j]>>, c, m.inst)

\* An accepted move that leaves exactly 2*halo to the other module
C20_Witness ==
    /\ last.op = "move" /\ last.called /\ last.ok
    /\ \E j \in (1..Len(modules)) \ {last.idx} :
          /\ GapX(Rect(last.cand[1], last.cand[2], modules[last.idx].w,
                       modules[last.idx].h),
                  Rect(modules[j].x, modules[j].y, modules[j].w, modules[j].h))
                = 2 * HALO_PX
          /\ modules[j].y = last.cand[2]

\* A rejected move that would leave a gap of 4, less than 2*halo
C20_WitnessRejected ==
    /\ last.op = "move" /\ last.called /\ ~last.ok
    /\ \E j \in (1..Len(modules)) \ {last.idx} :
          GapX(Rect(last.cand[1], last.cand[2], modules[last.idx].w,
                    modules[last.idx].h),
               Rect(modules[j].x, modules[j].y, modules[j].w, modules[j].h))
             = HALO_PX

\* C19: _snap(v, g) is round-half-away-from-zero of v/g, times g: the
\* result is a multiple of g nearest to v, and for v exactly halfway
\* between two multiples it is the one farther from zero.
C19_SnapHalfAwayFromZero ==
    probe.fn = "_snap" =>
        LET v == probe.args[1]
            g == probe.args[2]
            r == probe.res[1]
        IN  /\ r % g = 0
            /\ 2 * Abs(r - v) <= g
            /\ 2 * Abs(r - v) = g => Abs(r) > Abs(v)

\* The distance of the doubled pin center to the Core edge of a side, and
\* the rank of a side in the list N, S, W, E of the projector
SideDist2(side, cx2, cy2, core) ==
    CASE side = "N" -> Abs(cy2 - 2 * core.top)
      [] side = "S" -> Abs(cy2 - 2 * core.bottom)
      [] side = "W" -> Abs(cx2 - 2 * core.left)
      [] side = "E" -> Abs(cx2 - 2 * core.right)
TieRank(side) ==
    CASE side = "N" -> 1 [] side = "S" -> 2 [] side = "W" -> 3 [] side = "E" -> 4
Sides == {"N", "S", "W", "E"}

\* C21: _project_to_perimeter chooses a side whose Core edge is at the
\* least absolute distance from the pin center, and among the sides at
\* that least distance the first of N, S, W, E: every side listed before
\* the chosen one is strictly farther.
C21_NearestSideFirstWins ==
    probe.fn = "_project_to_perimeter" =>
        LET d    == probe.args[3]
            size == PinSize(d.grid)
            cx2  == 2 * probe.args[1] + size
            cy2  == 2 * probe.args[2] + size
            core == CoreOf(d)
            side == probe.res[1].side
        IN  \A s \in Sides :
                /\ SideDist2(side, cx2, cy2, core) <= SideDist2(s, cx2, cy2, core)
                /\ TieRank(s) < TieRank(side) =>
                       SideDist2(side, cx2, cy2, core) < SideDist2(s, cx2, cy2, core)

\* A center inside the Core equidistant from the bottom and right edges,
\* and nearer to them than to the others, was projected to S.
C21_Witness ==
    /\ probe.fn = "_project_to_perimeter"
    /\ LET d    == probe.args[3]
           size == PinSize(d.grid)
           cx2  == 2 * probe.args[1] + size
           cy2  == 2 * probe.args[2] + size
           core == CoreOf(d)
       IN  /\ SideDist2("S", cx2, cy2, core) = SideDist2("E", cx2, cy2, core)
           /\ SideDist2("S", cx2, cy2, core) < SideDist2("N", cx2, cy2, core)
           /\ SideDist2("S", cx2, cy2, core) < SideDist2("W", cx2, cy2, core)
           /\ SideDist2("S", cx2, cy2, core) > 0
           /\ probe.res[1].side = "S"

ModRect(m) == Rect(m.x, m.y, m.w, m.h)

\* C22: the modules build_design emits are pairwise disjoint rectangles,
\* whatever the module list, the grid and the scaling parameters, also
\* across row wraps and when a module is wider than the row.
C22_PackingOverlapFree ==
    last.op = "ingest" =>
        \A i \in 1..Len(disk.modules), j \in 1..Len(disk.modules) :
            i # j => ~Intersects(ModRect(disk.modules[i]), ModRect(disk.modules[j]))

\* A design was written whose modules are each wider than the row, one
\* per row, on at least three rows.
C22_Witness ==
    /\ last.op = "ingest" /\ Len(disk.modules) >= 3
    /\ \A i \in 1..Len(disk.modules) :
           /\ disk.modules[i].x + disk.modules[i].w
                  > disk.die.width - disk.die.core_margin
           /\ \A j \in 1..Len(disk.modules) :
                  i # j => disk.modules[i].y # disk.modules[j].y

\* A design was written with two modules side by side in one row and a
\* third one in a second row.
C22_WitnessWrap ==
    /\ last.op = "ingest"
    /\ \E i, j, k \in 1..Len(disk.modules) :
           /\ i # j /\ disk.modules[i].y = disk.modules[j].y
           /\ disk.modules[k].y > disk.modules[i].y

\* C23: after the initial packing every module rectangle lies inside the
\* Core, for any number of modules and any areas.
C23_PackedInsideCore ==
    last.op = "ingest" =>
        \A i \in 1..Len(disk.modules) :
            LET m    == disk.modules[i]
                core == CoreOf(disk.die)
            IN  /\ core.left <= m.x /\ m.x + m.w <= core.right
                /\ core.top <= m.y /\ m.y + m.h <= core.bottom

\* The module records autoscale_modules sees while it processes module i
\* of a design loaded from disk: the modules before i as it left them,
\* the modules from i on as loaded.
SeenAt(i) ==
    [j \in 1..Len(modules) |-> IF j < i THEN modules[j] ELSE disk.modules[j]]

\* Module i, rescaled to its final side and put at abscissa x on its
\* clamped ordinate, collides with another module under the halo rule.
CollidesAt(i, x) ==
    LET side == modules[i].w
        core == CoreOf(die)
        y    == ClampAlong(core.top, disk.modules[i].y, core.bottom - side)
    IN  \E j \in 1..Len(modules) :
            /\ j # i
            /\ Intersects(Adjusted(Rect(x, y, side, side), HALO_PX),
                          HaloRect(SeenAt(i)[j]))

\* C24: after autoscale_modules the y of each module is its old y clamped
\* into [core.top, core.bottom - side] and its x is the old x clamped into
\* [core.left, core.right - side] plus n*grid, for the least n >= 0 at
\* which the rescaled rectangle collides with no other module or, when
\* there is none, the greatest n with x + side <= core.right; the module
\* is not moved left of the clamped x nor beyond the right bound.
C24_AutoscaleClampAndSlide ==
    last.op = "launch" =>
        \A i \in 1..Len(modules) :
            LET side == modules[i].w
                core == CoreOf(die)
                x0   == ClampAlong(core.left, disk.modules[i].x, core.right - side)
                y0   == ClampAlong(core.top, disk.modules[i].y, core.bottom - side)
                x    == modules[i].x
            IN  /\ modules[i].y = y0
                /\ x >= x0
                /\ x + side <= core.right
                /\ (x - x0) % die.grid = 0
                /\ \A k \in 0..((x - x0) \div die.grid - 1) :
                       CollidesAt(i, x0 + k * die.grid)
                /\ ~CollidesAt(i, x) \/ x + side + die.grid > core.right

\* C27: autoscale_modules is idempotent: when a design saved right after
\* its autoscale at load is loaded again, the second autoscale leaves
\* every module's x, y, w and h as saved.
C27_AutoscaleIdempotent ==
    (last.op = "launch" /\ Saved(disk)) =>
        \A i \in 1..Len(modules) :
            /\ modules[i].x = disk.modules[i].x /\ modules[i].y = disk.modules[i].y
            /\ modules[i].w = disk.modules[i].w /\ modules[i].h = disk.modules[i].h

\* C25: _build_connectivity drops every endpoint whose module instance or
\* pin is not in the design: no module-module or module-pin edge names an
\* unknown instance or pin, and the edges and the maximum weight are those
\* of the nets restricted to their known endpoints.
C25_UnknownEndpointsDroppedFromGraph ==
    gui = "on" =>
        /\ \A key \in DOMAIN conn.mm :
               \A a \in {key[1], key[2]} : \E i \in 1..Len(modules) : modules[i].inst = a
        /\ \A key \in DOMAIN conn.mp :
               /\ \E i \in 1..Len(modules) : modules[i].inst = key[1]
               /\ \E k \in 1..Len(pins) : pins[k].name = key[2]
        /\ conn = _build_connectivity(
                      [k \in 1..Len(nets) |->
                          [nets[k] EXCEPT !.endpoints = KnownEps(@)]])

\* C26: for every position _project_to_perimeter produces, the side that
\* _infer_pin_side derives from that position is the side the projector
\* returned, including at the ends of the W and E sides.
C26_InferredSideIsProjectedSide ==
    probe.fn = "_infer_pin_side" => probe.res[2] = probe.res[1].side

\* C28: a module move proposal for module A, accepted or rejected, leaves
\* the x, y, w, h of every other module, the x, y, side of every pin, the
\* net list and A's own w and h as they were; a pin move changes only the
\* x, y, side of that pin.
C28_MoveFrame ==
    [][/\ last'.op = "move" =>
              /\ Len(modules') = Len(modules)
              /\ \A j \in 1..Len(modules) :
                     j # last'.idx => modules'[j] = modules[j] /\ itemPos'[j] = itemPos[j]
              /\ modules'[last'.idx].w = modules[last'.idx].w
              /\ modules'[last'.idx].h = modules[last'.idx].h
              /\ modules'[last'.idx].inst = modules[last'.idx].inst
              /\ pins' = pins /\ nets' = nets /\ ports' = ports
       /\ last'.op = "pin" =>
              /\ Len(pins') = Len(pins)
              /\ \A k \in 1..Len(pins) : k # last'.idx => pins'[k] = pins[k]
              /\ pins'[last'.idx].name = pins[last'.idx].name
              /\ modules' = modules /\ itemPos' = itemPos /\ nets' = nets
              /\ ports' = ports]_vars

\* Module u1 was moved by an accepted proposal after a pin had been moved
\* off its initial place, in a session with two modules, two pins and
\* nets.
C28_Witness ==
    /\ last.op = "move" /\ last.called /\ last.ok /\ last.idx = 1
    /\ Len(modules) = 2 /\ Len(pins) = 2 /\ Len(nets) > 0
    /\ <<modules[1].x, modules[1].y>> = last.ret
    /\ <<modules[1].x, modules[1].y>> # <<disk.modules[1].x, disk.modules[1].y>>
    /\ pins # _place_pins_initial(ports, die)

\* C29: every offset written to pin_placement.cfg lies in [0, sideLength]
\* of its side, and the offsets of one side never decrease in emission
\* order, also when the bits do not fit on the side.
C29_OffsetsInRangeAndMonotone ==
    last.op = "export" =>
        LET ls == export.pin_lines
        IN  /\ \A i \in 1..Len(ls) :
                   0 <= ls[i].off /\ ls[i].off <= SideLength(ls[i].side, die)
            /\ \A i \in 1..Len(ls), j \in 1..Len(ls) :
                   (i < j /\ ls[i].side = ls[j].side) => ls[i].off <= ls[j].off

\* An export in which the bits of a side did not fit: two lines of one
\* side share the offset sideLength, after lines with increasing offsets.
C29_Witness ==
    /\ last.op = "export"
    /\ LET ls == export.pin_lines
       IN  /\ \E i \in 1..Len(ls), j \in 1..Len(ls) :
                  /\ i < j /\ ls[i].side = ls[j].side
                  /\ ls[i].off = ls[j].off
                  /\ ls[i].off = SideLength(ls[i].side, die)
           /\ \E i \in 1..Len(ls), j \in 1..Len(ls) :
                  /\ i < j /\ ls[i].side = ls[j].side
                  /\ 0 < ls[i].off /\ ls[i].off < ls[j].off

\* C30: whatever the cell instance names, an endpoint build_design made
\* from a cell connection is classified as a module endpoint by
\* _build_connectivity and _hpwl_net, and only the endpoints made from
\* top-level ports are classified as pin endpoints: in an open session no
\* endpoint owned by a module instance is taken for a pin, and every
\* endpoint and every module-pin edge taken for a pin names a port.
C30_CellEndpointsAreModuleEndpoints ==
    gui = "on" =>
        /\ \A k \in 1..Len(nets) : \A ep \in Range(nets[k].endpoints) :
               /\ (\E i \in 1..Len(modules) : modules[i].inst = SplitHead(ep))
                      => ~IsTopEp(ep)
               /\ IsTopEp(ep) =>
                      \E p \in 1..Len(ports) : ports[p].name = SplitTail(ep)
        /\ \A key \in DOMAIN conn.mp :
               \E p \in 1..Len(ports) : ports[p].name = key[2]

====
